---------------------------- MODULE Spec2Model ----------------------------
(***************************************************************************)
(* A model of data_browser/types.py (the typed value / filter engine) and  *)
(* of qrapp/views.py.                                                      *)
(*                                                                         *)
(* A Python str is a sequence of one-character strings, so that strip,     *)
(* split, lower, startswith and msg[0].upper() are computed, not assumed.  *)
(* A Python value is a tagged record (PyNone, PyBool, PyNum, PyStr,        *)
(* PyList, PyDT, PyDate).  A call either returns or raises: Ret / Raise.   *)
(***************************************************************************)
EXTENDS Integers, Sequences, FiniteSets, TLC

VARIABLES
    pc,     \* "idle", or "done" when a call has returned or raised
    call,   \* the call made: the entry point and its arguments
    ret,    \* its outcome: Ret(value) or Raise(class, message)
    calls,  \* the parse calls the entry point made on its way
    cache   \* the keys (value, choices) lru_cache holds for RegexType._parse

vars == <<pc, call, ret, calls, cache>>

(***************************************************************************)
(* Python values                                                           *)
(***************************************************************************)
PyNone == [t |-> "none"]
PyBool(b) == [t |-> "bool", v |-> b]
PyNum(n) == [t |-> "num", v |-> n]
\* a float; the model's floats are the integral ones
PyFloat(n) == [t |-> "float", v |-> n]
PyUUID(hex) == [t |-> "uuid", v |-> hex]
\* a timedelta of days and seconds (0 <= seconds < 86400)
PyDelta(days, seconds) == [t |-> "timedelta", v |-> [days |-> days, seconds |-> seconds]]
PyStr(s) == [t |-> "str", v |-> s]
PyList(l) == [t |-> "list", v |-> l]

\* Python truthiness (`if x`, `not x`, `assert x`)
Truthy(x) ==
    CASE x.t = "none" -> FALSE
      [] x.t = "bool" -> x.v
      [] x.t = "num" -> x.v # 0
      [] x.t = "float" -> x.v # 0
      [] x.t = "timedelta" -> x.v.days # 0 \/ x.v.seconds # 0
      [] x.t = "str" -> x.v # <<>>
      [] x.t = "list" -> x.v # <<>>
      [] OTHER -> TRUE

\* the outcome of a call: a returned value or a raised exception
Ret(v) == [k |-> "return", val |-> v]
Raise(cls, msg) == [k |-> "raise", cls |-> cls, msg |-> msg]
Raised(r) == r.k = "raise"

(***************************************************************************)
(* str operations                                                          *)
(***************************************************************************)
Digits == {"0", "1", "2", "3", "4", "5", "6", "7", "8", "9"}
Spaces == {" "}
Lowers == {"a", "b", "c", "d", "e", "f", "g", "h", "i", "j", "k", "l", "m",
           "n", "o", "p", "q", "r", "s", "t", "u", "v", "w", "x", "y", "z"}
Uppers == {"A", "B", "C", "D", "E", "F", "G", "H", "I", "J", "K", "L", "M",
           "N", "O", "P", "Q", "R", "S", "T", "U", "V", "W", "X", "Y", "Z"}

UpperPairs == {<<"a", "A">>, <<"b", "B">>, <<"c", "C">>, <<"d", "D">>, <<"e", "E">>,
               <<"f", "F">>, <<"g", "G">>, <<"h", "H">>, <<"i", "I">>, <<"j", "J">>,
               <<"k", "K">>, <<"l", "L">>, <<"m", "M">>, <<"n", "N">>, <<"o", "O">>,
               <<"p", "P">>, <<"q", "Q">>, <<"r", "R">>, <<"s", "S">>, <<"t", "T">>,
               <<"u", "U">>, <<"v", "V">>, <<"w", "W">>, <<"x", "X">>, <<"y", "Y">>,
               <<"z", "Z">>}

\* str.upper() and str.lower() of one character
UpperChar(c) == IF c \in Lowers THEN (CHOOSE p \in UpperPairs : p[1] = c)[2] ELSE c
LowerChar(c) == IF c \in Uppers THEN (CHOOSE p \in UpperPairs : p[2] = c)[1] ELSE c

\* str.lower()
Lower(s) == [i \in 1..Len(s) |-> LowerChar(s[i])]

DigitVal(c) ==
    CASE c = "0" -> 0 [] c = "1" -> 1 [] c = "2" -> 2 [] c = "3" -> 3 [] c = "4" -> 4
      [] c = "5" -> 5 [] c = "6" -> 6 [] c = "7" -> 7 [] c = "8" -> 8 [] c = "9" -> 9

AllIn(s, set) == \A i \in 1..Len(s) : s[i] \in set

\* int(s) of a non-empty string of decimal digits
RECURSIVE IntOf(_)
IntOf(s) == IF s = <<>> THEN 0
            ELSE 10 * IntOf(SubSeq(s, 1, Len(s) - 1)) + DigitVal(s[Len(s)])

\* str.strip(): leading and trailing whitespace removed
Strip(s) ==
    LET keep == {i \in 1..Len(s) : s[i] \notin Spaces}
        Min(S) == CHOOSE m \in S : \A o \in S : m <= o
        Max(S) == CHOOSE m \in S : \A o \in S : m >= o
    IN IF keep = {} THEN <<>> ELSE SubSeq(s, Min(keep), Max(keep))

\* c in s, s.count(c), s.find(c) (0 when absent, else the 1-based place)
Contains(s, c) == \E i \in 1..Len(s) : s[i] = c
Count(s, c) == Cardinality({i \in 1..Len(s) : s[i] = c})
Find(s, c) == IF Contains(s, c)
              THEN CHOOSE i \in 1..Len(s) : s[i] = c /\ \A j \in 1..(i - 1) : s[j] # c
              ELSE 0

\* s.startswith(p)
StartsWith(s, p) == Len(p) <= Len(s) /\ SubSeq(s, 1, Len(p)) = p

\* s.split(): the maximal runs of non-whitespace characters, in order
RECURSIVE SplitWs(_)
SplitWs(s) ==
    IF s = <<>> THEN <<>>
    ELSE IF s[1] \in Spaces THEN SplitWs(Tail(s))
    ELSE LET stop == IF \E i \in 1..Len(s) : s[i] \in Spaces
                     THEN (CHOOSE i \in 1..Len(s) :
                              s[i] \in Spaces /\ \A j \in 1..(i - 1) : s[j] \notin Spaces)
                     ELSE Len(s) + 1
         IN <<SubSeq(s, 1, stop - 1)>> \o SplitWs(SubSeq(s, stop, Len(s)))

\* s.split(sep): the pieces between the occurrences of the character sep
RECURSIVE SplitOn(_, _)
SplitOn(s, sep) ==
    IF ~Contains(s, sep) THEN <<s>>
    ELSE <<SubSeq(s, 1, Find(s, sep) - 1)>> \o SplitOn(SubSeq(s, Find(s, sep) + 1, Len(s)), sep)

\* str(n) of an int
DigitChar(d) ==
    CASE d = 0 -> "0" [] d = 1 -> "1" [] d = 2 -> "2" [] d = 3 -> "3" [] d = 4 -> "4"
      [] d = 5 -> "5" [] d = 6 -> "6" [] d = 7 -> "7" [] d = 8 -> "8" [] d = 9 -> "9"

RECURSIVE StrOfInt(_)
StrOfInt(n) ==
    IF n < 0 THEN <<"-">> \o StrOfInt(-n)
    ELSE IF n < 10 THEN <<DigitChar(n)>>
    ELSE StrOfInt(n \div 10) \o <<DigitChar(n % 10)>>

\* the text of a str as one TLA+ string (for messages)
RECURSIVE Text(_)
Text(s) == IF s = <<>> THEN "" ELSE s[1] \o Text(Tail(s))


(***************************************************************************)
(* The registry and the lookup tables                                      *)
(***************************************************************************)
\* the classes the array loop builds, in the order of its list (BooleanType twice)
ArrayLoopElements ==
    <<"boolean", "duration", "boolean", "datetime", "date", "uuid", "url", "string",
      "number", "stringable">>

\* cls.name of the class the loop builds for an element class
ArrayName(e) ==
    CASE e = "boolean" -> "booleanarray"
      [] e = "duration" -> "durationarray"
      [] e = "datetime" -> "datetimearray"
      [] e = "date" -> "datearray"
      [] e = "uuid" -> "uuidarray"
      [] e = "url" -> "urlarray"
      [] e = "string" -> "stringarray"
      [] e = "number" -> "numberarray"
      [] e = "stringable" -> "stringablearray"

LoopArrayTypes == {ArrayName(ArrayLoopElements[i]) : i \in 1..Len(ArrayLoopElements)}

ChoiceArrayTypes == {"stringchoicearray", "numberchoicearray"}

ArrayTypes == LoopArrayTypes \cup ChoiceArrayTypes

\* the classes that take their behaviour from ChoiceTypeMixin
ChoiceTypes == {"stringchoice", "numberchoice"}

LeafTypes ==
    {"string", "stringable", "number", "regex", "duration", "datetime", "date", "html",
     "url", "boolean", "uuid", "unknown", "jsonfield", "json", "isnull"}

\* a registry the regex type is missing from
TYPESWithoutRegex == (LeafTypes \ {"regex"}) \cup ChoiceTypes \cup ArrayTypes

\* the keys of TYPES
TYPES == LeafTypes \cup ChoiceTypes \cup ArrayTypes

\* the class attribute element_type ("" for None)
element_type(T) ==
    CASE T = "stringchoicearray" -> "stringchoice"
      [] T = "numberchoicearray" -> "numberchoice"
      [] T \in LoopArrayTypes ->
           ArrayLoopElements[CHOOSE i \in 1..Len(ArrayLoopElements) :
                                 ArrayName(ArrayLoopElements[i]) = T]
      [] OTHER -> ""

\* the class attribute raw_type ("" for None)
raw_type(T) ==
    CASE T = "stringchoice" -> "string"
      [] T = "numberchoice" -> "number"
      [] T = "stringchoicearray" -> "stringarray"
      [] T = "numberchoicearray" -> "numberarray"
      [] OTHER -> ""

\* the lookup tuples: (type, keep_choices) or (type, keep_choices, pretty_name)
BaseLookups(T) ==
    << <<"equals", T, PyBool(TRUE)>>,
       <<"not_equals", T, PyBool(TRUE)>>,
       <<"is_null", "isnull", PyBool(FALSE)>> >>

StringLookups(T) ==
    << <<"equals", T, PyBool(TRUE)>>,
       <<"contains", T, PyBool(TRUE)>>,
       <<"starts_with", T, PyBool(TRUE)>>,
       <<"ends_with", T, PyBool(TRUE)>>,
       <<"regex", "regex", PyBool(FALSE)>>,
       <<"not_equals", T, PyBool(TRUE)>>,
       <<"not_contains", T, PyBool(TRUE)>>,
       <<"not_starts_with", T, PyBool(TRUE)>>,
       <<"not_ends_with", T, PyBool(TRUE)>>,
       <<"not_regex", "regex", PyBool(FALSE)>>,
       <<"is_null", "isnull", PyBool(FALSE)>> >>

SequenceLookups(T) ==
    << <<"equals", T, PyBool(TRUE)>>,
       <<"not_equals", T, PyBool(TRUE)>>,
       <<"gt", T, PyBool(TRUE), ">">>,
       <<"gte", T, PyBool(TRUE), ">=">>,
       <<"lt", T, PyBool(TRUE), "<">>,
       <<"lte", T, PyBool(TRUE), "<=">>,
       <<"is_null", "isnull", PyBool(FALSE)>> >>

JSONLookups(T) ==
    << <<"equals", T, PyBool(TRUE)>>,
       <<"has_key", "string", PyNone>>,
       <<"field_equals", "jsonfield", PyNone>>,
       <<"not_equals", T, PyBool(TRUE)>>,
       <<"not_has_key", "string", PyNone>>,
       <<"not_field_equals", "jsonfield", PyNone>>,
       <<"is_null", "isnull", PyBool(FALSE)>> >>

ArrayLookups(T) ==
    << <<"equals", T, PyBool(TRUE)>>,
       <<"contains", element_type(T), PyBool(TRUE)>>,
       <<"length", "number", PyBool(FALSE)>>,
       <<"not_equals", T, PyBool(TRUE)>>,
       <<"not_contains", element_type(T), PyBool(TRUE)>>,
       <<"not_length", "number", PyBool(FALSE)>>,
       <<"is_null", "isnull", PyBool(FALSE)>> >>

IsNullOnlyLookups == << <<"is_null", "isnull", PyBool(FALSE)>> >>

IsNullTypeLookups == << <<"equals", "isnull", PyBool(FALSE)>> >>

\* cls._lookups(), by method resolution order
_lookups(T) ==
    CASE T \in {"string", "url"} -> StringLookups(T)
      [] T \in {"number", "duration", "datetime", "date"} -> SequenceLookups(T)
      [] T \in {"html", "unknown"} -> IsNullOnlyLookups
      [] T = "json" -> JSONLookups(T)
      [] T = "isnull" -> IsNullTypeLookups
      [] T \in ArrayTypes -> ArrayLookups(T)
      [] OTHER -> BaseLookups(T)

\* name.replace("_", " ")
ReplaceUnderscore(name) ==
    CASE name = "not_equals" -> "not equals"
      [] name = "is_null" -> "is null"
      [] name = "starts_with" -> "starts with"
      [] name = "ends_with" -> "ends with"
      [] name = "not_contains" -> "not contains"
      [] name = "not_starts_with" -> "not starts with"
      [] name = "not_ends_with" -> "not ends with"
      [] name = "not_regex" -> "not regex"
      [] name = "has_key" -> "has key"
      [] name = "field_equals" -> "field equals"
      [] name = "not_has_key" -> "not has key"
      [] name = "not_field_equals" -> "not field equals"
      [] name = "not_length" -> "not length"
      [] OTHER -> name

\* TypeMeta.lookups: the names, in order, and name -> (pretty_name, type name, keep_choices)
LookupNames(T) == [i \in 1..Len(_lookups(T)) |-> _lookups(T)[i][1]]

HasLookup(T, name) == \E i \in 1..Len(_lookups(T)) : _lookups(T)[i][1] = name

lookups(T, name) ==
    LET \* a later entry of a dict literal replaces an earlier one of the same key
        i == CHOOSE j \in 1..Len(_lookups(T)) :
                 /\ _lookups(T)[j][1] = name
                 /\ \A k \in (j + 1)..Len(_lookups(T)) : _lookups(T)[k][1] # name
        e == _lookups(T)[i]
    IN IF Len(e) = 4
       THEN [pretty_name |-> e[4], type_name |-> e[2], keep_choices |-> e[3]]
       ELSE [pretty_name |-> ReplaceUnderscore(name), type_name |-> e[2],
             keep_choices |-> e[3]]

(***************************************************************************)
(* datetime, timedelta and relativedelta                                   *)
(***************************************************************************)
MINYEAR == 1
MAXYEAR == 9999

PyDT(y, mo, d, h, mi, sec, us) ==
    [t |-> "datetime",
     v |-> [year |-> y, month |-> mo, day |-> d, hour |-> h, minute |-> mi,
            second |-> sec, microsecond |-> us]]
PyDate(y, mo, d) == [t |-> "date", v |-> [year |-> y, month |-> mo, day |-> d]]

IsLeap(y) == y % 4 = 0 /\ (y % 100 # 0 \/ y % 400 = 0)

\* calendar.monthrange(y, m)[1]
DaysInMonth(y, m) ==
    CASE m \in {1, 3, 5, 7, 8, 10, 12} -> 31
      [] m \in {4, 6, 9, 11} -> 30
      [] m = 2 -> IF IsLeap(y) THEN 29 ELSE 28

DaysBeforeYear(y) == 365 * (y - 1) + ((y - 1) \div 4) - ((y - 1) \div 100) + ((y - 1) \div 400)

RECURSIVE DaysBeforeMonth(_, _)
DaysBeforeMonth(y, m) == IF m = 1 THEN 0 ELSE DaysBeforeMonth(y, m - 1) + DaysInMonth(y, m - 1)

\* date.toordinal(): 1 for 0001-01-01
ToOrdinal(y, m, d) == DaysBeforeYear(y) + DaysBeforeMonth(y, m) + d

MaxOrdinal == ToOrdinal(MAXYEAR, 12, 31)

\* date.fromordinal(n), for 1 <= n <= MaxOrdinal
FromOrdinal(n) ==
    LET y == CHOOSE c \in ((n \div 366) + 1)..((n \div 365) + 1) :
                 DaysBeforeYear(c) < n /\ n <= DaysBeforeYear(c + 1)
        m == CHOOSE c \in 1..12 :
                 /\ DaysBeforeYear(y) + DaysBeforeMonth(y, c) < n
                 /\ n <= DaysBeforeYear(y) + DaysBeforeMonth(y, c) + DaysInMonth(y, c)
    IN [year |-> y, month |-> m, day |-> n - DaysBeforeYear(y) - DaysBeforeMonth(y, m)]

\* date.weekday(): Monday is 0
Weekday(dt) == (ToOrdinal(dt.year, dt.month, dt.day) + 6) % 7

\* the floor of a / b for b > 0 (Python's //)
FloorDiv(a, b) == IF a >= 0 THEN a \div b ELSE -((-a + b - 1) \div b)

\* datetime.replace(**repl), which validates every field
DTReplace(dt, repl) ==
    LET n == [f \in DOMAIN dt |-> IF f \in DOMAIN repl THEN repl[f] ELSE dt[f]]
    IN IF n.year < MINYEAR \/ n.year > MAXYEAR
         THEN Raise("ValueError", <<"y", "ear ">> \o StrOfInt(n.year) \o <<" is out of range">>)
       ELSE IF n.month < 1 \/ n.month > 12
         THEN Raise("ValueError", <<"m", "onth must be in 1..12">>)
       ELSE IF n.day < 1 \/ n.day > DaysInMonth(n.year, n.month)
         THEN Raise("ValueError", <<"d", "ay is out of range for month">>)
       ELSE IF n.hour < 0 \/ n.hour > 23
         THEN Raise("ValueError", <<"h", "our must be in 0..23">>)
       ELSE IF n.minute < 0 \/ n.minute > 59
         THEN Raise("ValueError", <<"m", "inute must be in 0..59">>)
       ELSE IF n.second < 0 \/ n.second > 59
         THEN Raise("ValueError", <<"s", "econd must be in 0..59">>)
       ELSE IF n.microsecond < 0 \/ n.microsecond > 999999
         THEN Raise("ValueError", <<"m", "icrosecond must be in 0..999999">>)
       ELSE Ret(n)

\* dt + timedelta(days, hours, minutes, seconds, microseconds)
DTAddDelta(dt, days, hours, minutes, seconds, microseconds) ==
    LET us == dt.microsecond + microseconds
        secs == dt.hour * 3600 + dt.minute * 60 + dt.second
                  + hours * 3600 + minutes * 60 + seconds + FloorDiv(us, 1000000)
        ord == ToOrdinal(dt.year, dt.month, dt.day) + days + FloorDiv(secs, 86400)
        sod == secs - 86400 * FloorDiv(secs, 86400)
        ymd == FromOrdinal(ord)
    IN IF ord < 1 \/ ord > MaxOrdinal
       THEN Raise("OverflowError", <<"d", "ate value out of range">>)
       ELSE Ret([year |-> ymd.year, month |-> ymd.month, day |-> ymd.day,
                 hour |-> sod \div 3600, minute |-> (sod % 3600) \div 60,
                 second |-> sod % 60,
                 microsecond |-> us - 1000000 * FloorDiv(us, 1000000)])

RelativeFields == {"years", "months", "days", "weeks", "hours", "minutes", "seconds",
                   "microseconds"}
AbsoluteFields == {"year", "month", "day", "hour", "minute", "second", "microsecond"}

\* relativedelta.__radd__, last step: the weekday of a relativedelta(weekday=wd(n))
\* moves the date to the n-th such weekday on or after (n > 0) or before (n < 0) it
AddWeekday(moved, kw, val) ==
    IF Raised(moved) \/ kw # "weekday" THEN moved
    ELSE LET nth == val[2]
             an == IF nth < 0 THEN -nth ELSE nth
             gap == IF nth > 0
                    THEN (7 - Weekday(moved.val) + val[1]) % 7
                    ELSE (Weekday(moved.val) - val[1] + 7) % 7
             jump == (an - 1) * 7 + gap
         IN DTAddDelta(moved.val, IF nth > 0 THEN jump ELSE -jump, 0, 0, 0, 0)

\* relativedelta.__radd__, second step: the timedelta of the relative days, weeks,
\* hours, minutes, seconds and microseconds is added to the replaced datetime
AddRelative(replaced, kw, val) ==
    IF Raised(replaced) THEN replaced
    ELSE AddWeekday(DTAddDelta(replaced.val,
                               (IF kw = "days" THEN val ELSE 0)
                                 + 7 * (IF kw = "weeks" THEN val ELSE 0),
                               IF kw = "hours" THEN val ELSE 0,
                               IF kw = "minutes" THEN val ELSE 0,
                               IF kw = "seconds" THEN val ELSE 0,
                               IF kw = "microseconds" THEN val ELSE 0),
                    kw, val)

\* dt + relativedelta(**{kw: val}) for one keyword; a weekday is val = <<weekday, n>>
RelativeDeltaAdd(dt, kw, val) ==
    LET rel(f) == IF kw = f THEN val ELSE 0
        \* relativedelta._fix carries whole years out of the months
        months == IF rel("months") >= 0 THEN rel("months") % 12
                  ELSE -((-rel("months")) % 12)
        years == rel("years")
                   + (IF rel("months") >= 0 THEN rel("months") \div 12
                      ELSE -((-rel("months")) \div 12))
        abs(f) == IF kw = f /\ val # 0 THEN val ELSE dt[f]
        year0 == abs("year") + years
        month0 == abs("month") + months
        \* the month wraps into the year only when relative months are given
        wraps == months # 0
        year == IF wraps /\ month0 > 12 THEN year0 + 1
                ELSE IF wraps /\ month0 < 1 THEN year0 - 1 ELSE year0
        month == IF wraps /\ month0 > 12 THEN month0 - 12
                 ELSE IF wraps /\ month0 < 1 THEN month0 + 12 ELSE month0
        fixed == [f \in {"hour", "minute", "second", "microsecond"} \cap {kw} |-> val]
    IN IF month < 1 \/ month > 12
       THEN Raise("IllegalMonthError",
                  <<"b", "ad month number ">> \o StrOfInt(month) \o <<"; must be 1-12">>)
       ELSE AddRelative(
              DTReplace(dt, [f \in {"year", "month", "day"} \cup DOMAIN fixed |->
                               CASE f = "year" -> year
                                 [] f = "month" -> month
                                 [] f = "day" ->
                                      IF DaysInMonth(year, month) < abs("day")
                                      THEN DaysInMonth(year, month) ELSE abs("day")
                                 [] OTHER -> fixed[f]]),
              kw, val)

(***************************************************************************)
(* dateutil.parser.parse, for the clause forms of the model's inputs:      *)
(* eight digits; three numbers, one of them a four-digit year at either    *)
(* end, joined by one of - and /; a weekday name, a hyphen and a day       *)
(* number; a number of at most 31 alone; hours:minutes.  Every other input *)
(* of the model is one dateutil rejects.                                   *)
(***************************************************************************)
\* the maximal runs of digits and of non-digits of s, in order
RECURSIVE Runs(_)
Runs(s) ==
    IF s = <<>> THEN <<>>
    ELSE LET dig == s[1] \in Digits
             stop == IF \E i \in 1..Len(s) : (s[i] \in Digits) # dig
                     THEN (CHOOSE i \in 1..Len(s) :
                              /\ (s[i] \in Digits) # dig
                              /\ \A j \in 1..(i - 1) : (s[j] \in Digits) = dig)
                     ELSE Len(s) + 1
         IN <<[dig |-> dig, txt |-> SubSeq(s, 1, stop - 1)]>>
              \o Runs(SubSeq(s, stop, Len(s)))

DateSeparators == {<<"-">>, <<"/">>}

\* the names dateutil's parserinfo knows as weekdays, with datetime's numbering
WeekdayNames ==
    << <<"mon", 0>>, <<"monday", 0>>, <<"tue", 1>>, <<"tuesday", 1>>, <<"wed", 2>>,
       <<"wednesday", 2>>, <<"thu", 3>>, <<"thursday", 3>>, <<"fri", 4>>,
       <<"friday", 4>>, <<"sat", 5>>, <<"saturday", 5>>, <<"sun", 6>>, <<"sunday", 6>> >>

IsWeekdayName(s) == \E i \in 1..Len(WeekdayNames) : WeekdayNames[i][1] = Text(s)

ParserError(msg, timestr) == Raise("ParserError", msg \o <<": ">> \o timestr)

\* _ymd.resolve_ymd for three numbers of which member yidx holds the four-digit year
ResolveYmd(a, yidx, dayfirst, yearfirst) ==
    IF a[1] > 31 \/ yidx = 1 \/ (yearfirst /\ a[2] <= 12 /\ a[3] <= 31)
    THEN IF dayfirst /\ a[3] <= 12
         THEN [year |-> a[1], day |-> a[2], month |-> a[3]]
         ELSE [year |-> a[1], month |-> a[2], day |-> a[3]]
    ELSE IF a[1] > 12 \/ (dayfirst /\ a[2] <= 12)
    THEN [day |-> a[1], month |-> a[2], year |-> a[3]]
    ELSE [month |-> a[1], day |-> a[2], year |-> a[3]]

\* dateutil.parser.parse(timestr, dayfirst=, yearfirst=, default=)
dateutil_parse(timestr, dayfirst, yearfirst, default) ==
    LET r == Runs(timestr)
        unknown == ParserError(<<"U", "nknown string format">>, timestr)
        build(repl) ==
            LET b == DTReplace(default, repl)
            IN IF Raised(b) THEN ParserError(b.msg, timestr) ELSE b
    IN CASE Len(r) = 1 /\ r[1].dig /\ Len(r[1].txt) = 8 ->
              build(ResolveYmd(<<IntOf(SubSeq(timestr, 1, 4)), IntOf(SubSeq(timestr, 5, 6)),
                                 IntOf(SubSeq(timestr, 7, 8))>>, 1, dayfirst, yearfirst))
         [] /\ Len(r) = 5 /\ r[1].dig /\ r[2].txt \in DateSeparators /\ r[4].txt = r[2].txt
            /\ Len(r[3].txt) <= 2
            /\ \/ Len(r[1].txt) = 4 /\ Len(r[5].txt) <= 2
               \/ Len(r[1].txt) <= 2 /\ Len(r[5].txt) = 4 ->
              build(ResolveYmd(<<IntOf(r[1].txt), IntOf(r[3].txt), IntOf(r[5].txt)>>,
                               IF Len(r[1].txt) = 4 THEN 1 ELSE 3, dayfirst, yearfirst))
         [] /\ Len(r) = 2 /\ IsWeekdayName(SubSeq(timestr, 1, Len(r[1].txt) - 1))
            /\ r[1].txt[Len(r[1].txt)] = "-" /\ Len(r[2].txt) <= 2 /\ IntOf(r[2].txt) <= 31 ->
              \* a day number is given, so the weekday does not move the date
              build([day |-> IntOf(r[2].txt)])
         [] Len(r) = 1 /\ r[1].dig /\ Len(r[1].txt) <= 2 /\ IntOf(r[1].txt) <= 31 ->
              \* a number alone that can be a day of a month is the day
              build([day |-> IntOf(r[1].txt)])
         [] /\ Len(r) = 3 /\ r[1].dig /\ r[2].txt = <<":">>
            /\ Len(r[1].txt) <= 2 /\ Len(r[3].txt) <= 2 ->
              build([hour |-> IntOf(r[1].txt), minute |-> IntOf(r[3].txt)])
         [] OTHER -> unknown

(***************************************************************************)
(* DateTimeParseMixin                                                      *)
(***************************************************************************)
WordChars == Lowers \cup Uppers \cup Digits \cup {"_"}
OpChars == {"-", "+", "="}

\* _clause.fullmatch(clause_str): (\w{3,})([-+=])(\d+) *; the groups, or <<>> for None
ClauseMatch(clause_str) ==
    IF \E i \in 1..Len(clause_str) : clause_str[i] \notin WordChars
    THEN LET i == CHOOSE k \in 1..Len(clause_str) :
                      /\ clause_str[k] \notin WordChars
                      /\ \A j \in 1..(k - 1) : clause_str[j] \in WordChars
             rest == SubSeq(clause_str, i + 1, Len(clause_str))
             r == Runs(rest)
         IN IF /\ i - 1 >= 3
               /\ clause_str[i] \in OpChars
               /\ Len(r) \in {1, 2} /\ r[1].dig
               /\ (Len(r) = 2 => AllIn(r[2].txt, {" "}))
            THEN <<SubSeq(clause_str, 1, i - 1), clause_str[i], r[1].txt>>
            ELSE <<>>
    ELSE <<>>

\* re.match(rf"[^\d]*({d8}|{d422})", clause_str)
LooksLikeIsoDate(clause_str) ==
    LET all == Runs(clause_str)
        r == IF all # <<>> /\ ~all[1].dig THEN Tail(all) ELSE all
    IN /\ r # <<>>
       /\ \/ Len(r[1].txt) >= 8
          \/ /\ Len(r[1].txt) = 4
             /\ Len(r) >= 5
             /\ Len(r[3].txt) \in {1, 2}
             /\ Len(r[5].txt) \in {1, 2}

\* the weekday objects of relativedelta (MO = 0 .. SU = 6)
RelWeekday(n) == [t |-> "weekday", v |-> n]

\* a table whose key of the month is "mon", a prefix of the key "mond" of the Monday
_clause_types_mon ==
    << <<<<"y", "e", "a">>, PyStr(<<"year">>)>>,
       <<<<"m", "o", "n">>, PyStr(<<"month">>)>>,
       <<<<"d", "a", "y">>, PyStr(<<"day">>)>>,
       <<<<"h", "o", "u">>, PyStr(<<"hour">>)>>,
       <<<<"m", "i", "n">>, PyStr(<<"minute">>)>>,
       <<<<"s", "e", "c">>, PyStr(<<"second">>)>>,
       <<<<"m", "i", "c">>, PyStr(<<"microsecond">>)>>,
       <<<<"w", "e", "e">>, PyStr(<<"week">>)>>,
       <<<<"m", "o", "n", "d">>, RelWeekday(0)>>,
       <<<<"t", "u", "e">>, RelWeekday(1)>>,
       <<<<"w", "e", "d">>, RelWeekday(2)>>,
       <<<<"t", "h", "u">>, RelWeekday(3)>>,
       <<<<"f", "r", "i">>, RelWeekday(4)>>,
       <<<<"s", "a", "t">>, RelWeekday(5)>>,
       <<<<"s", "u", "n">>, RelWeekday(6)>> >>

\* _clause_types, in dict order
_clause_types ==
    << <<<<"y", "e", "a">>, PyStr(<<"year">>)>>,
       <<<<"m", "o", "n", "t">>, PyStr(<<"month">>)>>,
       <<<<"d", "a", "y">>, PyStr(<<"day">>)>>,
       <<<<"h", "o", "u">>, PyStr(<<"hour">>)>>,
       <<<<"m", "i", "n">>, PyStr(<<"minute">>)>>,
       <<<<"s", "e", "c">>, PyStr(<<"second">>)>>,
       <<<<"m", "i", "c">>, PyStr(<<"microsecond">>)>>,
       <<<<"w", "e", "e">>, PyStr(<<"week">>)>>,
       <<<<"m", "o", "n", "d">>, RelWeekday(0)>>,
       <<<<"t", "u", "e">>, RelWeekday(1)>>,
       <<<<"w", "e", "d">>, RelWeekday(2)>>,
       <<<<"t", "h", "u">>, RelWeekday(3)>>,
       <<<<"f", "r", "i">>, RelWeekday(4)>>,
       <<<<"s", "a", "t">>, RelWeekday(5)>>,
       <<<<"s", "u", "n">>, RelWeekday(6)>> >>

\* _truncate_dt
_truncate_dt(value) == [value EXCEPT !.hour = 0, !.minute = 0, !.second = 0, !.microsecond = 0]

\* a set of four parses whose disagreement is answered with None, as a parse that
\* raised ParserError is
UniqueParseOrNone(all) ==
    IF \E i \in 1..4 : Raised(all[i])
    THEN Ret(PyNone)
    ELSE IF Cardinality({all[i].val : i \in 1..4}) # 1
    THEN Ret(PyNone)
    ELSE Ret([t |-> "datetime", v |-> all[1].val])

\* the set of the four parses in _unambiguous_date_parse: its only member, None when
\* a parse raised ParserError, or the exception of an ambiguous value
UniqueParse(all) ==
    IF \E i \in 1..4 : Raised(all[i])
    THEN Ret(PyNone)
    ELSE IF Cardinality({all[i].val : i \in 1..4}) # 1
    THEN Raise("Exception", <<"A", "mbiguous value">>)
    ELSE Ret([t |-> "datetime", v |-> all[1].val])

\* _unambiguous_date_parse(value, default=default): a datetime, None, or an exception
_unambiguous_date_parse(value, default) ==
    UniqueParse(<<dateutil_parse(value, FALSE, FALSE, default),
                  dateutil_parse(value, TRUE, FALSE, default),
                  dateutil_parse(value, FALSE, TRUE, default),
                  dateutil_parse(value, TRUE, TRUE, default)>>)

NotSupported(op, field) ==
    Raise("Exception", <<"'", op, "' not supported for '">> \o field \o <<"'">>)

\* a `=` that only year, month and day take: every other unit is not supported
SetKwargsDateOnly(arg, field, op, human_op, val) ==
    IF arg.v \notin {<<"year">>, <<"month">>, <<"day">>} THEN NotSupported(op, field)
    ELSE IF val <= 0
      THEN Raise("Exception",
                 <<"C", "an't ">> \o human_op \o <<" '">> \o field
                   \o <<"' to '">> \o StrOfInt(val) \o <<"'">>)
    ELSE Ret(<<Text(arg.v), val>>)

\* the branch op == "=" of a unit: the keyword and the value of kwargs, or the exception
SetKwargs(arg, field, op, human_op, val) ==
    IF arg.v = <<"week">> THEN NotSupported(op, field)
    ELSE IF arg.v \in {<<"year">>, <<"month">>, <<"day">>} /\ val <= 0
      THEN Raise("Exception",
                 <<"C", "an't ">> \o human_op \o <<" '">> \o field
                   \o <<"' to '">> \o StrOfInt(val) \o <<"'">>)
    ELSE Ret(<<Text(arg.v), val>>)

\* a weekday branch that takes N = 0 and refuses the negative N alone
WeekdayKwargsFromZero(arg, field, op, human_op, val) ==
    IF op = "=" THEN NotSupported(op, field)
    ELSE IF val < 0
      THEN Raise("Exception",
                 <<"C", "an't ">> \o human_op \o <<" '">> \o StrOfInt(val)
                   \o <<"' '">> \o field \o <<"'s">>)
    ELSE IF op = "+" THEN Ret(<<"weekday", <<arg.v, val>> >>)
    ELSE Ret(<<"weekday", <<arg.v, -val>> >>)

\* the branch of the weekdays: the keyword and the value of kwargs, or the exception
WeekdayKwargs(arg, field, op, human_op, val) ==
    IF op = "=" THEN NotSupported(op, field)
    ELSE IF val <= 0
      THEN Raise("Exception",
                 <<"C", "an't ">> \o human_op \o <<" '">> \o StrOfInt(val)
                   \o <<"' '">> \o field \o <<"'s">>)
    ELSE IF op = "+" THEN Ret(<<"weekday", <<arg.v, val>> >>)
    ELSE Ret(<<"weekday", <<arg.v, -val>> >>)

\* the else branch of the loop of DateTimeParseMixin._parse: the clause is matched
\* against _clause and applied to res; match is ClauseMatch(clause_str)
RelativeClause(res, clause_str, match) ==
    LET field == match[1]
        op == match[2]
        val == IntOf(match[3])
        human_op == CASE op = "+" -> <<"add">> [] op = "-" -> <<"subtract">>
                      [] op = "=" -> <<"set">>
        hits == {i \in 1..Len(_clause_types) : StartsWith(field, _clause_types[i][1])}
        arg == _clause_types[CHOOSE i \in hits : \A j \in hits : i <= j][2]
        \* the keyword and the value of kwargs, or the exception raised instead
        kwargs ==
            IF arg.t = "str"
            THEN IF op = "+" THEN Ret(<<Text(arg.v) \o "s", val>>)
                 ELSE IF op = "-" THEN Ret(<<Text(arg.v) \o "s", -val>>)
                 ELSE SetKwargs(arg, field, op, human_op, val)
            ELSE WeekdayKwargs(arg, field, op, human_op, val)
    IN IF match = <<>>
         THEN Raise("Exception", <<"U", "nrecognized clause '">> \o clause_str \o <<"'">>)
       ELSE IF hits = {}
         THEN Raise("Exception", <<"U", "nrecognized field '">> \o field \o <<"'">>)
       ELSE IF Raised(kwargs) THEN kwargs
       ELSE RelativeDeltaAdd(res, kwargs.val[1], kwargs.val[2])

\* the branches of the loop body after the ISO date: unambiguous is the outcome of
\* _unambiguous_date_parse(clause_str, default=_truncate_dt(res))
AbsoluteClause(res, clause_str, unambiguous) ==
    IF Raised(unambiguous) THEN unambiguous
    ELSE IF Truthy(unambiguous.val) THEN Ret(unambiguous.val.v)
    ELSE RelativeClause(res, clause_str, ClauseMatch(clause_str))

\* a loop body whose now and today leave the accumulator as it is
LowerClauseKeeps(res, clause_str, now) ==
    IF clause_str \in {<<"n", "o", "w">>, <<"t", "o", "d", "a", "y">>} THEN Ret(res)
    ELSE IF LooksLikeIsoDate(clause_str)
      THEN dateutil_parse(clause_str, FALSE, FALSE, _truncate_dt(res))
    ELSE AbsoluteClause(res, clause_str,
                        _unambiguous_date_parse(clause_str, _truncate_dt(res)))

\* the body of the loop for clause_str = clause.lower()
LowerClause(res, clause_str, now) ==
    IF clause_str = <<"n", "o", "w">> THEN Ret(now)
    ELSE IF clause_str = <<"t", "o", "d", "a", "y">> THEN Ret(_truncate_dt(now))
    ELSE IF LooksLikeIsoDate(clause_str)
      THEN dateutil_parse(clause_str, FALSE, FALSE, _truncate_dt(res))
    ELSE AbsoluteClause(res, clause_str,
                        _unambiguous_date_parse(clause_str, _truncate_dt(res)))

\* a pass of the loop that leaves the clause in the case it was written in
DateClauseAsWritten(res, clause, now) == LowerClause(res, clause, now)

\* one pass of the loop of DateTimeParseMixin._parse: the new value of res, or the exception
DateClause(res, clause, now) == LowerClause(res, Lower(clause), now)

\* the loop over value.split(), from the accumulator res
RECURSIVE DateClauses(_, _, _)
NextClause(step, clauses, now) ==
    IF Raised(step) THEN step ELSE DateClauses(step.val, clauses, now)

\* a loop whose clauses all start from the current instant, not from the accumulator
DateClausesFromNow(res, clauses, now) ==
    IF clauses = <<>> THEN Ret(res)
    ELSE NextClause(DateClause(now, Head(clauses), now), Tail(clauses), now)

DateClauses(res, clauses, now) ==
    IF clauses = <<>> THEN Ret(res)
    ELSE NextClause(DateClause(res, Head(clauses), now), Tail(clauses), now)

AssertionError == Raise("AssertionError", <<>>)

\* type(value).__name__
TypeName(value) ==
    CASE value.t = "none" -> "NoneType"
      [] value.t = "num" -> "int"
      [] value.t = "timedelta" -> "datetime.timedelta"
      [] value.t = "datetime" -> "datetime.datetime"
      [] value.t = "date" -> "datetime.date"
      [] value.t = "uuid" -> "UUID"
      [] OTHER -> value.t

AttributeError(value, attr) ==
    Raise("AttributeError", <<"'", TypeName(value), "' object has no attribute '", attr, "'">>)

\* the datetime DateTimeParseMixin._parse returns
DateTimeResult(r) == IF Raised(r) THEN r ELSE Ret([t |-> "datetime", v |-> r.val])

\* DateTimeParseMixin._parse(value, choices), with timezone.now() reading now
DateTimeParse(value, choices, now) ==
    IF choices # <<>> THEN AssertionError
    ELSE IF value.t # "str" THEN AttributeError(value, "split")
    ELSE DateTimeResult(DateClauses(now, SplitWs(value.v), now))

\* a date type that keeps a date-time and sets its time of day to zero
DateOfMidnight(r) ==
    IF Raised(r) THEN r ELSE Ret([t |-> "datetime", v |-> _truncate_dt(r.val.v)])

\* datetime.date()
DateOf(r) == IF Raised(r) THEN r ELSE Ret(PyDate(r.val.v.year, r.val.v.month, r.val.v.day))

\* DateType._parse(value, choices): super()._parse(value, choices).date()
DateParse(value, choices, now) == DateOf(DateTimeParse(value, choices, now))

(***************************************************************************)
(* Conversions of the standard library and of Django                       *)
(***************************************************************************)
\* the key a dict holds a value under: True == 1 == 1.0, and strs by their text
Key(x) ==
    CASE x.t = "bool" -> [t |-> "num", v |-> IF x.v THEN 1 ELSE 0]
      [] x.t = "float" -> [t |-> "num", v |-> x.v]
      [] x.t = "str" -> [t |-> "str", v |-> Text(x.v)]
      [] OTHER -> x

PyEq(a, b) == Key(a) = Key(b)

\* repr(s) of a str without quote characters
ReprStr(s) == <<"'">> \o s \o <<"'">>

\* the text of an unsigned decimal whose fraction, if it has one, is zero: "12", "12.",
\* "12.0", ".0"
IsWholeDecimal(s) ==
    LET dot == Find(s, ".")
        whole == IF dot = 0 THEN s ELSE SubSeq(s, 1, dot - 1)
        frac == IF dot = 0 THEN <<>> ELSE SubSeq(s, dot + 1, Len(s))
    IN /\ whole \o frac # <<>>
       /\ AllIn(whole, Digits)
       /\ AllIn(frac, {"0"})

\* float(value), for the unsigned decimals of integral value the model spells numbers with
FloatOf(value) ==
    CASE value.t \in {"num", "float"} -> Ret(PyFloat(value.v))
      [] value.t = "bool" -> Ret(PyFloat(IF value.v THEN 1 ELSE 0))
      [] value.t = "str" ->
           IF IsWholeDecimal(Strip(value.v))
           THEN Ret(PyFloat(IntOf(IF Find(Strip(value.v), ".") = 0 THEN Strip(value.v)
                                  ELSE SubSeq(Strip(value.v), 1,
                                              Find(Strip(value.v), ".") - 1))))
           ELSE Raise("ValueError",
                      <<"c", "ould not convert string to float: ">> \o ReprStr(value.v))
      [] OTHER ->
           Raise("TypeError",
                 <<"f", "loat() argument must be a string or a real number, not '",
                   TypeName(value), "'">>)

\* s.replace(sub, "")
RECURSIVE Remove(_, _)
Remove(s, sub) ==
    IF s = <<>> THEN <<>>
    ELSE IF StartsWith(s, sub) THEN Remove(SubSeq(s, Len(sub) + 1, Len(s)), sub)
    ELSE <<s[1]>> \o Remove(Tail(s), sub)

\* s.strip(chars)
StripChars(s, chars) ==
    LET keep == {i \in 1..Len(s) : s[i] \notin chars}
    IN IF keep = {} THEN <<>>
       ELSE SubSeq(s, CHOOSE m \in keep : \A o \in keep : m <= o,
                   CHOOSE m \in keep : \A o \in keep : m >= o)

HexDigits == Digits \cup {"a", "b", "c", "d", "e", "f", "A", "B", "C", "D", "E", "F"}

\* uuid.UUID(value)
UUIDOf(value) ==
    IF value.t = "none"
    THEN Raise("TypeError",
               <<"o", "ne of the hex, bytes, bytes_le, fields, or int arguments must be given">>)
    ELSE IF value.t # "str" THEN AttributeError(value, "replace")
    ELSE LET hex == Remove(StripChars(Remove(Remove(value.v, <<"u", "r", "n", ":">>),
                                             <<"u", "u", "i", "d", ":">>), {"{", "}"}),
                           <<"-">>)
         IN IF Len(hex) # 32
            THEN Raise("ValueError", <<"b", "adly formed hexadecimal UUID string">>)
            ELSE IF ~AllIn(hex, HexDigits)
            THEN Raise("ValueError",
                       <<"i", "nvalid literal for int() with base 16: ">> \o ReprStr(hex))
            ELSE Ret(PyUUID(Lower(hex)))

\* django.utils.dateparse.parse_duration(value), for
\* [days [day(s), ]][[hours:]minutes:]seconds[.000000] in unsigned decimal integers, and
\* for the empty string, which the PostgreSQL interval format matches: a timedelta, or
\* None
parse_duration(value) ==
    LET sp == Find(value, " ")
        days == IF sp = 0 THEN <<"0">> ELSE SubSeq(value, 1, sp - 1)
        after == SubSeq(value, sp + 1, Len(value))
        unit == IF sp = 0 THEN <<>>
                ELSE IF StartsWith(after, <<"d", "a", "y", "s", ",", " ">>)
                THEN <<"d", "a", "y", "s", ",", " ">>
                ELSE IF StartsWith(after, <<"d", "a", "y", ",", " ">>)
                THEN <<"d", "a", "y", ",", " ">>
                ELSE <<>>
        clock == SubSeq(after, Len(unit) + 1, Len(after))
        dot == Find(clock, ".")
        micro == IF dot = 0 THEN <<"0">> ELSE SubSeq(clock, dot + 1, Len(clock))
        parts == SplitOn(IF dot = 0 THEN clock ELSE SubSeq(clock, 1, dot - 1), ":")
        n == Len(parts)
        num(i) == IF i < 1 THEN 0 ELSE IntOf(parts[i])
        total == num(n - 2) * 3600 + num(n - 1) * 60 + num(n)
    IN IF value = <<>> THEN PyDelta(0, 0)
       ELSE IF /\ days # <<>> /\ AllIn(days, Digits)
          /\ n \in 1..3
          /\ \A i \in 1..n : parts[i] # <<>> /\ AllIn(parts[i], Digits)
          /\ Len(micro) \in 1..12 /\ AllIn(micro, {"0"})
       THEN PyDelta(IntOf(days) + (total \div 86400), total % 86400)
       ELSE PyNone

\* json.loads of one scalar: null, true, false, an unsigned integer, or a string
\* without escapes; <<>> when it is none of them
JsonScalar(s) ==
    CASE s = <<"n", "u", "l", "l">> -> <<PyNone>>
      [] s = <<"t", "r", "u", "e">> -> <<PyBool(TRUE)>>
      [] s = <<"f", "a", "l", "s", "e">> -> <<PyBool(FALSE)>>
      [] s # <<>> /\ AllIn(s, Digits) /\ (Len(s) = 1 \/ s[1] # "0") -> <<PyNum(IntOf(s))>>
      [] /\ Len(s) >= 2 /\ s[1] = "\"" /\ s[Len(s)] = "\""
         /\ \A i \in 2..(Len(s) - 1) : s[i] \notin {"\"", "\\"} ->
           <<PyStr(SubSeq(s, 2, Len(s) - 1))>>
      [] OTHER -> <<>>

\* json.loads(s): a scalar, or a list of scalars; <<>> for JSONDecodeError
JsonDecode(s) ==
    LET t == Strip(s)
        inner == Strip(SubSeq(t, 2, Len(t) - 1))
        items == SplitOn(inner, ",")
        vals == [i \in 1..Len(items) |-> JsonScalar(Strip(items[i]))]
    IN IF Len(t) >= 2 /\ t[1] = "[" /\ t[Len(t)] = "]"
       THEN IF inner = <<>> THEN <<PyList(<<>>)>>
            ELSE IF \E i \in 1..Len(items) : vals[i] = <<>> THEN <<>>
            ELSE <<PyList([i \in 1..Len(items) |-> vals[i][1]])>>
       ELSE JsonScalar(t)

\* _json_loads(value)
_json_loads(value) ==
    IF value.t # "str" THEN AttributeError(value, "strip")
    ELSE IF JsonDecode(value.v) = <<>>
    THEN Raise("ValueError", <<"I", "nvalid JSON value">>)
    ELSE Ret(JsonDecode(value.v)[1])

(***************************************************************************)
(* The types: _parse                                                       *)
(***************************************************************************)
\* BaseType._parse
BaseParse(value, choices) == IF choices # <<>> THEN AssertionError ELSE Ret(value)

\* NumberType._parse
NumberParse(value, choices) == IF choices # <<>> THEN AssertionError ELSE FloatOf(value)

\* RegexType._parse on a cache miss; dbok: the database accepts the pattern
RegexParse(value, choices, dbok) ==
    IF choices # <<>> THEN AssertionError
    ELSE IF ~dbok THEN Raise("Exception", <<"I", "nvalid regex">>)
    ELSE Ret(value)

\* RegexType._parse behind lru_cache(maxsize=None): the result stored under the key
\* (value, choices) when there is one, else the call of the function
RegexCached(value, choices, env) ==
    IF <<value, choices>> \in env.cache THEN Ret(value)
    ELSE RegexParse(value, choices, env.dbok)

\* the cache of RegexType._parse after the parse calls `parses`: the result of a call that
\* returned is stored under its key, and no entry is ever removed
CacheAfter(entries, parses, dbok) ==
    entries \cup {<<parses[i].value, parses[i].choices>> :
                    i \in {j \in 1..Len(parses) :
                              /\ parses[j].type = "regex"
                              /\ ~Raised(RegexParse(parses[j].value, parses[j].choices, dbok))}}

\* DurationType._parse
DurationParse(value, choices) ==
    IF choices # <<>> THEN AssertionError
    ELSE IF value.t # "str" THEN AttributeError(value, "count")
    ELSE LET v == IF Count(value.v, ":") = 1 THEN value.v \o <<":", "0">> ELSE value.v
             res == parse_duration(v)
         IN IF res = PyNone
            THEN Raise("Exception", <<"D", "uration value should be 'DD HH:MM:SS'">>)
            ELSE Ret(res)

\* BooleanType._parse without value.lower(): only the lower-case spellings are accepted
BooleanParseExact(value, choices) ==
    IF choices # <<>> THEN AssertionError
    ELSE IF value.t # "str" THEN AttributeError(value, "lower")
    ELSE IF value.v = <<"t", "r", "u", "e">> THEN Ret(PyBool(TRUE))
    ELSE IF value.v = <<"f", "a", "l", "s", "e">> THEN Ret(PyBool(FALSE))
    ELSE Raise("ValueError", <<"E", "xpected 'true' or 'false'">>)

\* BooleanType._parse
BooleanParse(value, choices) ==
    IF choices # <<>> THEN AssertionError
    ELSE IF value.t # "str" THEN AttributeError(value, "lower")
    ELSE IF Lower(value.v) = <<"t", "r", "u", "e">> THEN Ret(PyBool(TRUE))
    ELSE IF Lower(value.v) = <<"f", "a", "l", "s", "e">> THEN Ret(PyBool(FALSE))
    ELSE Raise("ValueError", <<"E", "xpected 'true' or 'false'">>)

\* UUIDType._parse
UUIDParse(value, choices) == IF choices # <<>> THEN AssertionError ELSE UUIDOf(value)

\* JSONFieldType._parse
JSONFieldParse(value, choices) ==
    IF choices # <<>> THEN AssertionError
    ELSE IF value.t # "str" THEN AttributeError(value, "strip")
    ELSE LET v == Strip(value.v)
             field == SubSeq(v, 1, Find(v, "|") - 1)
             rest == SubSeq(v, Find(v, "|") + 1, Len(v))
             pair(loaded) == IF Raised(loaded) THEN loaded
                             ELSE Ret(PyList(<<PyStr(field), loaded.val>>))
         IN IF ~Contains(v, "|")
            THEN Raise("ValueError", <<"M", "issing seperator '|'">>)
            ELSE IF field = <<>> THEN Raise("ValueError", <<"I", "nvalid field name">>)
            ELSE pair(_json_loads(PyStr(rest)))

\* JSONType._parse
JSONParse(value, choices) == IF choices # <<>> THEN AssertionError ELSE _json_loads(value)

\* str(value)
TwoDigits(n) == IF n < 10 THEN <<"0">> \o StrOfInt(n) ELSE StrOfInt(n)

PadTo(s, n) == [i \in 1..(n - Len(s)) |-> "0"] \o s

StrOfDate(d) ==
    PadTo(StrOfInt(d.year), 4) \o <<"-">> \o TwoDigits(d.month) \o <<"-">> \o TwoDigits(d.day)

\* str(value) of a value that is not a list
StrOfScalar(value) ==
    CASE value.t = "str" -> value.v
      [] value.t = "none" -> <<"N", "o", "n", "e">>
      [] value.t = "bool" -> IF value.v THEN <<"T", "r", "u", "e">>
                             ELSE <<"F", "a", "l", "s", "e">>
      [] value.t = "num" -> StrOfInt(value.v)
      [] value.t = "float" -> StrOfInt(value.v) \o <<".", "0">>
      [] value.t = "uuid" ->
           SubSeq(value.v, 1, 8) \o <<"-">> \o SubSeq(value.v, 9, 12) \o <<"-">>
             \o SubSeq(value.v, 13, 16) \o <<"-">> \o SubSeq(value.v, 17, 20) \o <<"-">>
             \o SubSeq(value.v, 21, 32)
      [] value.t = "timedelta" ->
           (IF value.v.days = 0 THEN <<>>
            ELSE StrOfInt(value.v.days)
                   \o (IF value.v.days \in {1, -1} THEN <<" ", "d", "a", "y", ",", " ">>
                       ELSE <<" ", "d", "a", "y", "s", ",", " ">>))
             \o StrOfInt(value.v.seconds \div 3600) \o <<":">>
             \o TwoDigits((value.v.seconds % 3600) \div 60) \o <<":">>
             \o TwoDigits(value.v.seconds % 60)
      [] value.t = "date" -> StrOfDate(value.v)
      [] value.t = "datetime" ->
           StrOfDate(value.v) \o <<" ">> \o TwoDigits(value.v.hour) \o <<":">>
             \o TwoDigits(value.v.minute) \o <<":">> \o TwoDigits(value.v.second)
             \o (IF value.v.microsecond = 0 THEN <<>>
                 ELSE <<".">> \o PadTo(StrOfInt(value.v.microsecond), 6))

\* repr(value) of an element of a decoded JSON list
ReprOfScalar(value) == IF value.t = "str" THEN ReprStr(value.v) ELSE StrOfScalar(value)

RECURSIVE JoinReprs(_)
JoinReprs(l) ==
    IF l = <<>> THEN <<>>
    ELSE IF Len(l) = 1 THEN ReprOfScalar(l[1])
    ELSE ReprOfScalar(l[1]) \o <<",", " ">> \o JoinReprs(Tail(l))

\* str(value)
StrOf(value) ==
    IF value.t = "list" THEN <<"[">> \o JoinReprs(value.v) \o <<"]">>
    ELSE StrOfScalar(value)

\* a lookup by label that answers with the first pair labelled value
InvertedChoiceFirst(choices, value) ==
    LET at == {i \in 1..Len(choices) : PyEq(choices[i][2], value)}
    IN IF at = {} THEN <<>>
       ELSE <<choices[CHOOSE i \in at : \A j \in at : i <= j][1]>>

\* {v: k for k, v in choices}[value]: the raw value of the last pair labelled value,
\* or <<>> when value is not a key
InvertedChoice(choices, value) ==
    LET at == {i \in 1..Len(choices) : PyEq(choices[i][2], value)}
    IN IF at = {} THEN <<>>
       ELSE <<choices[CHOOSE i \in at : \A j \in at : i >= j][1]>>

\* ChoiceTypeMixin._parse
ChoiceParse(value, choices) ==
    IF choices = <<>> THEN AssertionError
    ELSE IF value.t = "list"
    THEN Raise("TypeError", <<"u", "nhashable type: 'list'">>)
    ELSE IF InvertedChoice(choices, value) = <<>>
    THEN Raise("ValueError", <<"U", "nknown choice '">> \o StrOf(value) \o <<"'">>)
    ELSE Ret(InvertedChoice(choices, value)[1])

\* choices whose labels are exchanged
IsNullChoicesSwapped ==
    << <<PyNone, PyStr(<<"N", "o", "t", "N", "u", "l", "l">>)>>,
       <<PyBool(TRUE), PyStr(<<"N", "o", "t", "N", "u", "l", "l">>)>>,
       <<PyBool(FALSE), PyStr(<<"I", "s", "N", "u", "l", "l">>)>> >>

\* IsNullType.choices
IsNullChoices ==
    << <<PyNone, PyStr(<<"I", "s", "N", "u", "l", "l">>)>>,
       <<PyBool(TRUE), PyStr(<<"I", "s", "N", "u", "l", "l">>)>>,
       <<PyBool(FALSE), PyStr(<<"N", "o", "t", "N", "u", "l", "l">>)>> >>

\* IsNullType._parse
IsNullParse(value, choices) ==
    IF choices # <<>> THEN AssertionError ELSE ChoiceParse(value, IsNullChoices)

\* cls._parse(value, choices) of a class that is not an array; env: the clock and the
\* database the call meets
ElementParse(T, value, choices, env) ==
    CASE T = "number" -> NumberParse(value, choices)
      [] T = "regex" -> RegexCached(value, choices, env)
      [] T = "duration" -> DurationParse(value, choices)
      [] T = "datetime" -> DateTimeParse(value, choices, env.now)
      [] T = "date" -> DateParse(value, choices, env.now)
      [] T = "boolean" -> BooleanParse(value, choices)
      [] T = "uuid" -> UUIDParse(value, choices)
      [] T = "jsonfield" -> JSONFieldParse(value, choices)
      [] T = "json" -> JSONParse(value, choices)
      [] T \in ChoiceTypes -> ChoiceParse(value, choices)
      [] T = "isnull" -> IsNullParse(value, choices)
      [] OTHER -> BaseParse(value, choices)

\* the list comprehension of ArrayTypeMixin._parse: the elements are parsed in order,
\* and the first exception ends it.  parsed: the elements handed to the element type
RECURSIVE ParseElements(_, _, _, _, _)
\* a loop that parses the elements after a failed one too, and reports the last failure
ParsedElementAndRest(E, elems, choices, env, done, r) ==
    LET rest == ParseElements(E, Tail(elems), choices, env,
                              [vals |-> IF Raised(r) THEN done.vals
                                        ELSE Append(done.vals, r.val),
                               parsed |-> Append(done.parsed, Head(elems))])
    IN IF Raised(r) /\ ~Raised(rest.out) THEN [out |-> r, parsed |-> rest.parsed] ELSE rest

\* after the element elems[1] was parsed with the outcome r
ParsedElement(E, elems, choices, env, done, r) ==
    IF Raised(r) THEN [out |-> r, parsed |-> Append(done.parsed, Head(elems))]
    ELSE ParseElements(E, Tail(elems), choices, env,
                       [vals |-> Append(done.vals, r.val),
                        parsed |-> Append(done.parsed, Head(elems))])

ParseElements(E, elems, choices, env, done) ==
    IF elems = <<>> THEN [out |-> Ret(PyList(done.vals)), parsed |-> done.parsed]
    ELSE ParsedElement(E, elems, choices, env, done,
                       ElementParse(E, Head(elems), choices, env))

\* ArrayTypeMixin._parse after _json_loads(value) gave loaded
ParseLoaded(T, loaded, choices, env) ==
    IF Raised(loaded) THEN [out |-> loaded, parsed |-> <<>>]
    ELSE IF loaded.val.t # "list"
    THEN [out |-> Raise("ValueError", <<"E", "xpected a list">>), parsed |-> <<>>]
    ELSE ParseElements(element_type(T), loaded.val.v, choices, env,
                       [vals |-> <<>>, parsed |-> <<>>])

\* ArrayTypeMixin._parse
ArrayParse(T, value, choices, env) == ParseLoaded(T, _json_loads(value), choices, env)

\* cls._parse(value, choices)
_parse(T, value, choices, env) ==
    IF T \in ArrayTypes THEN ArrayParse(T, value, choices, env).out
    ELSE ElementParse(T, value, choices, env)

(***************************************************************************)
(* BaseType.parse and BaseType.parse_lookup                                *)
(***************************************************************************)
\* the classes `except Exception` catches: every exception class of the model
ExceptionClasses ==
    {"Exception", "AssertionError", "ValueError", "TypeError", "AttributeError",
     "OverflowError", "ParserError", "IllegalMonthError", "KeyError"}

\* repr(e) of an exception raised without arguments
ReprOfException(cls) ==
    CASE cls = "AssertionError" -> <<"A", "ssertionError()">>
      [] cls = "Exception" -> <<"E", "xception()">>
      [] cls = "ValueError" -> <<"V", "alueError()">>
      [] cls = "TypeError" -> <<"T", "ypeError()">>

\* the pair parse returns
Pair(value, err) == [value |-> value, err |-> err]

\* msg[0].upper() + msg[1:]
Capitalize(msg) == <<UpperChar(msg[1])>> \o Tail(msg)

\* an except clause that catches ValueError alone
ParseResultValueError(r) ==
    IF ~Raised(r) THEN Ret(Pair(r.val, PyNone))
    ELSE IF r.cls = "ValueError" THEN Ret(Pair(PyNone, PyStr(Capitalize(r.msg))))
    ELSE r

\* the except clause of BaseType.parse, for the outcome r of cls._parse
ParseResult(r) ==
    IF ~Raised(r) THEN Ret(Pair(r.val, PyNone))
    ELSE IF r.cls \in ExceptionClasses
    THEN LET msg == IF r.msg # <<>> THEN r.msg ELSE ReprOfException(r.cls)
         IN Ret(Pair(PyNone, PyStr(Capitalize(msg))))
    ELSE r

\* BaseType.parse(value, choices)
parse(T, value, choices, env) == ParseResult(_parse(T, value, choices, env))

\* choices that are discarded for the flag False alone
KeptChoicesUnlessFalse(keep_choices, choices) ==
    IF keep_choices = PyBool(FALSE) THEN <<>> ELSE choices

\* the choices parse_lookup and format_lookup hand on
KeptChoices(keep_choices, choices) == IF ~Truthy(keep_choices) THEN <<>> ELSE choices

\* the last two statements of BaseType.parse_lookup, for the lookup l: TYPES[type_name]
\* is looked up and its parse is called
ParseTarget(l, value, choices, env) ==
    [out |-> IF l.type_name \notin TYPES
             THEN Raise("KeyError", ReprStr(<<l.type_name>>))
             ELSE parse(l.type_name, value, KeptChoices(l.keep_choices, choices), env),
     calls |-> <<[type |-> l.type_name, value |-> value,
                  choices |-> KeptChoices(l.keep_choices, choices)]>>]

\* a parse_lookup that hands an unknown lookup to the type's own parse
parse_lookup_fallback(T, lookup, value, choices, env) ==
    IF ~HasLookup(T, lookup)
    THEN [out |-> parse(T, value, choices, env),
          calls |-> <<[type |-> T, value |-> value, choices |-> choices]>>]
    ELSE ParseTarget(lookups(T, lookup), value, choices, env)

\* BaseType.parse_lookup(lookup, value, choices); calls: the parse calls it makes
parse_lookup(T, lookup, value, choices, env) ==
    IF ~HasLookup(T, lookup)
    THEN [out |-> Ret(Pair(PyNone, PyStr(<<"B", "ad lookup">>))), calls |-> <<>>]
    ELSE ParseTarget(lookups(T, lookup), value, choices, env)

(***************************************************************************)
(* The formatters and BaseType.format_lookup                               *)
(***************************************************************************)
\* html.escape, which conditional_escape applies to str(value)
EscapeChar(c) ==
    CASE c = "&" -> <<"&", "a", "m", "p", ";">>
      [] c = "<" -> <<"&", "l", "t", ";">>
      [] c = ">" -> <<"&", "g", "t", ";">>
      [] c = "\"" -> <<"&", "q", "u", "o", "t", ";">>
      [] c = "'" -> <<"&", "#", "x", "2", "7", ";">>
      [] OTHER -> <<c>>

RECURSIVE HtmlEscape(_)
HtmlEscape(s) == IF s = <<>> THEN <<>> ELSE EscapeChar(s[1]) \o HtmlEscape(Tail(s))

\* dict(choices).get(value): None for a raw value that is no key
ChoiceLabelOrNone(choices, value) ==
    LET at == {i \in 1..Len(choices) : PyEq(choices[i][1], value)}
    IN IF at = {} THEN PyNone ELSE choices[CHOOSE i \in at : \A j \in at : i >= j][2]

\* dict(choices).get(value, value): the label of the last pair whose raw value is value
ChoiceLabel(choices, value) ==
    LET at == {i \in 1..Len(choices) : PyEq(choices[i][1], value)}
    IN IF at = {} THEN value ELSE choices[CHOOSE i \in at : \A j \in at : i >= j][2]

\* ChoiceTypeMixin._get_formatter(choices)(value)
ChoiceFormat(choices, value) ==
    IF choices = <<>> THEN AssertionError
    ELSE IF value.t = "list" THEN Raise("TypeError", <<"u", "nhashable type: 'list'">>)
    ELSE Ret(ChoiceLabel(choices, value))

\* cls._get_formatter(choices)(value) of a class that is not an array
ElementFormat(T, choices, value) ==
    IF T \in ChoiceTypes THEN ChoiceFormat(choices, value)
    ELSE IF choices # <<>> THEN AssertionError
    ELSE IF T = "isnull" THEN ChoiceFormat(IsNullChoices, value)
    ELSE IF T \in {"string", "url", "regex", "jsonfield", "json"} THEN Ret(value)
    ELSE IF value.t = "none" THEN Ret(PyNone)
    ELSE CASE T \in {"stringable", "duration", "date", "uuid", "unknown"} ->
                Ret(PyStr(StrOf(value)))
           [] T = "number" -> FloatOf(value)
           [] T = "datetime" ->
                IF value.t = "datetime"
                THEN Ret(PyStr(StrOf([value EXCEPT !.v.microsecond = 0])))
                ELSE IF value.t \in {"str", "date"}
                THEN Raise("TypeError",
                           IF value.t = "str"
                           THEN <<"s", "tr.replace() takes no keyword arguments">>
                           ELSE <<"'", "microsecond' is an invalid keyword argument ",
                                  "for replace()">>)
                ELSE AttributeError(value, "replace")
           [] T = "html" -> Ret(PyStr(HtmlEscape(StrOf(value))))
           [] T = "boolean" -> Ret(PyBool(Truthy(value)))

\* json.dumps of a list of None, bool, int, float, str (without escapes) and UUID
JsonEncodeScalar(value) ==
    CASE value.t = "none" -> <<"n", "u", "l", "l">>
      [] value.t = "bool" -> IF value.v THEN <<"t", "r", "u", "e">>
                             ELSE <<"f", "a", "l", "s", "e">>
      [] value.t \in {"num", "float"} -> StrOf(value)
      [] value.t = "str" -> <<"\"">> \o value.v \o <<"\"">>
      [] value.t = "uuid" -> <<"\"">> \o StrOf(value) \o <<"\"">>

RECURSIVE JoinJson(_)
JoinJson(l) ==
    IF l = <<>> THEN <<>>
    ELSE IF Len(l) = 1 THEN JsonEncodeScalar(l[1])
    ELSE JsonEncodeScalar(l[1]) \o <<",", " ">> \o JoinJson(Tail(l))

\* json.dumps(r, cls=DjangoJSONEncoder) of the list r of formatted elements
JsonDumps(r) == IF Raised(r) THEN r ELSE Ret(PyStr(<<"[">> \o JoinJson(r.val) \o <<"]">>))

\* [element_formatter(v) for v in value]: the first exception ends it
RECURSIVE FormatElements(_, _, _, _)
\* after the element elems[1] was formatted with the outcome r
FormattedElement(E, choices, elems, done, r) ==
    IF Raised(r) THEN r ELSE FormatElements(E, choices, Tail(elems), Append(done, r.val))

FormatElements(E, choices, elems, done) ==
    IF elems = <<>> THEN Ret(done)
    ELSE FormattedElement(E, choices, elems, done, ElementFormat(E, choices, Head(elems)))

\* ArrayTypeMixin._get_formatter(choices)(value)
ArrayFormat(T, choices, value) ==
    LET E == element_type(T)
        \* element_type._get_formatter(choices) asserts before any value is seen
        made == IF E \in ChoiceTypes THEN choices # <<>> ELSE choices = <<>>
        elems == IF value.t = "str" THEN [i \in 1..Len(value.v) |-> PyStr(<<value.v[i]>>)]
                 ELSE value.v
    IN IF ~made THEN AssertionError
       ELSE IF value.t = "none" THEN Ret(PyNone)
       ELSE IF value.t \notin {"list", "str"}
       THEN Raise("TypeError", <<"'", TypeName(value), "' object is not iterable">>)
       ELSE JsonDumps(FormatElements(E, choices, elems, <<>>))

\* cls._get_formatter(choices)(value)
_get_formatter(T, choices, value) ==
    IF T \in ArrayTypes THEN ArrayFormat(T, choices, value)
    ELSE ElementFormat(T, choices, value)

\* the last two statements of BaseType.format_lookup, for the lookup l
FormatTarget(l, value, choices) ==
    IF l.type_name \notin TYPES THEN Raise("KeyError", ReprStr(<<l.type_name>>))
    ELSE _get_formatter(l.type_name, KeptChoices(l.keep_choices, choices), value)

\* BaseType.format_lookup(lookup, value, choices)
format_lookup(T, lookup, value, choices) ==
    IF ~HasLookup(T, lookup) THEN Raise("KeyError", ReprStr(<<lookup>>))
    ELSE FormatTarget(lookups(T, lookup), value, choices)

(***************************************************************************)
(* The calls of the model                                                  *)
(***************************************************************************)
MaxChoices == 2
MaxElems == 3

\* the sequences over S of length at most n
RECURSIVE SeqsUpTo(_, _)
SeqsUpTo(S, n) ==
    IF n = 0 THEN {<<>>}
    ELSE SeqsUpTo(S, n - 1)
           \cup {Append(q, x) : q \in {r \in SeqsUpTo(S, n - 1) : Len(r) = n - 1}, x \in S}

Red == PyStr(<<"R", "e", "d">>)

\* the (raw value, label) pairs choices are made of: the label is shared
ChoicePairs == {<<PyNum(1), Red>>, <<PyStr(<<"a">>), Red>>}

ChoiceLists == SeqsUpTo(ChoicePairs, MaxChoices)

\* the choices a caller passes for a field of type T: every list for the types that read
\* their choices, and for the others, which only test them for emptiness, the empty list
\* and one that is not
ChoicesFor(T) ==
    IF T \in ChoiceTypes \cup ChoiceArrayTypes THEN ChoiceLists
    ELSE {<<>>, <<<<PyNum(1), Red>>>>}

\* the texts of JSON lists of strings
RECURSIVE JsonListBody(_)
JsonListBody(els) ==
    IF els = <<>> THEN <<>>
    ELSE <<"\"">> \o els[1] \o <<"\"">>
           \o (IF Len(els) = 1 THEN <<>> ELSE <<",", " ">>) \o JsonListBody(Tail(els))

ElemTexts == {<<"1">>, <<"b", "a", "d">>}

ArrayTexts ==
    {<<"[">> \o JsonListBody(els) \o <<"]">> : els \in SeqsUpTo(ElemTexts, MaxElems) \ {<<>>}}

PlainTexts ==
    {<<>>,
     <<"1">>,
     <<"b", "a", "d">>,
     <<"T", "r", "u", "e">>,
     <<"I", "s", "N", "u", "l", "l">>,
     <<"N", "o", "t", "N", "u", "l", "l">>,
     <<"R", "e", "d">>,
     <<"B", "l", "u", "e">>,
     <<" ", "a", "|", "1", " ">>,
     <<"a", "|", "b", "a", "d">>,
     <<"|", "1">>,
     <<"1", ":", "3", "0">>,
     <<"n", "o", "w">>,
     <<"D", "a", "y", "+", "1">>,
     <<"d", "a", "y", "=", "0">>,
     <<"[", "]">>,
     <<"[", "1", "]">>}

Texts == PlainTexts \cup ArrayTexts

LookupTexts ==
    {<<>>,
     <<"1">>,
     <<"b", "a", "d">>,
     <<"I", "s", "N", "u", "l", "l">>,
     <<"R", "e", "d">>,
     <<"a", "|", "1">>}

\* a lookup name no table holds
BogusLookup == "bogus"

\* the lookup names a caller passes: the type's own, is_null, and an unknown one
LookupArgs(T) ==
    {LookupNames(T)[i] : i \in 1..Len(LookupNames(T))} \cup {"is_null", BogusLookup}

FormatValues ==
    {PyNone, PyBool(TRUE), PyBool(FALSE), PyNum(1), PyStr(<<"a">>), PyStr(<<"<", "b", ">">>),
     PyList(<<PyNum(1), PyStr(<<"a">>)>>)}

\* the instant timezone.now() reads during a call
Now0 == PyDT(2024, 1, 15, 10, 0, 0, 0).v

Envs(T) == {[now |-> Now0, dbok |-> b] : b \in IF T = "regex" THEN BOOLEAN ELSE {TRUE}}

\* the type whose parse a parse_lookup of the lookup calls; the type itself when its
\* table does not hold the lookup
TargetOf(T, lookup) == IF HasLookup(T, lookup) THEN lookups(T, lookup).type_name ELSE T

\* the patterns given to the regex type: every pattern parsed stays in the cache
RegexTexts == {<<"1">>}

\* the texts given to a parse of the type T
TextsFor(T, texts) == IF T = "regex" THEN RegexTexts ELSE texts

NoCall == [op |-> "none"]

\* the clock and the database of a call, with the cache the process holds
InProcess(env) == [now |-> env.now, dbok |-> env.dbok, cache |-> cache]

Init == pc = "idle" /\ call = NoCall /\ ret = NoCall /\ calls = <<>> /\ cache = {}

\* cls.parse(value, choices)
Parse(T, value, choices, env) ==
    /\ pc = "idle"
    /\ pc' = "done"
    /\ call' = [op |-> "parse", type |-> T, value |-> value, choices |-> choices,
                env |-> InProcess(env)]
    /\ ret' = parse(T, value, choices, InProcess(env))
    /\ cache' = CacheAfter(cache, <<[type |-> T, value |-> value, choices |-> choices]>>,
                           env.dbok)
    /\ calls' = IF T \in ArrayTypes
                THEN LET p == ArrayParse(T, value, choices, env).parsed
                     IN [i \in 1..Len(p) |->
                            [type |-> element_type(T), value |-> p[i], choices |-> choices]]
                ELSE <<>>

\* cls.parse_lookup(lookup, value, choices)
ParseLookup(T, lookup, value, choices, env) ==
    /\ pc = "idle"
    /\ pc' = "done"
    /\ call' = [op |-> "parse_lookup", type |-> T, lookup |-> lookup, value |-> value,
                choices |-> choices, env |-> InProcess(env)]
    /\ \E r \in {parse_lookup(T, lookup, value, choices, InProcess(env))} :
          /\ ret' = r.out
          /\ calls' = r.calls
          /\ cache' = CacheAfter(cache, r.calls, env.dbok)

\* a default_value the JSON type takes from the type of its field_equals lookup
default_value_of_field(T) ==
    CASE T \in {"string", "html", "url", "stringable", "duration"} -> PyStr(<<>>)
      [] T = "number" -> PyNum(0)
      [] T = "regex" -> PyStr(<<".", "*">>)
      [] T = "datetime" -> PyStr(<<"n", "o", "w">>)
      [] T = "date" -> PyStr(<<"t", "o", "d", "a", "y">>)
      [] T = "boolean" -> PyBool(TRUE)
      [] T \in {"jsonfield", "json"} -> PyStr(<<"|">>)
      [] T = "isnull" -> IsNullChoices[1][2]
      [] T \in ArrayTypes -> PyStr(<<"[", "]">>)
      [] OTHER -> PyNone

\* the class attribute default_value, found along the bases of the class: a class that
\* does not set it and has no mixin setting it takes None from BaseType
default_value(T) ==
    CASE T \in {"string", "html", "url", "stringable", "duration"} -> PyStr(<<>>)
      [] T = "number" -> PyNum(0)
      [] T = "regex" -> PyStr(<<".", "*">>)
      [] T = "datetime" -> PyStr(<<"n", "o", "w">>)
      [] T = "date" -> PyStr(<<"t", "o", "d", "a", "y">>)
      [] T = "boolean" -> PyBool(TRUE)
      [] T = "jsonfield" -> PyStr(<<"|">>)
      [] T = "isnull" -> IsNullChoices[1][2]
      [] T \in ArrayTypes -> PyStr(<<"[", "]">>)
      [] OTHER -> PyNone

\* TypeMeta.default_lookup
default_lookup(T) == IF LookupNames(T) = <<>> THEN PyNone ELSE PyStr(<<LookupNames(T)[1]>>)

\* the entry _get_config builds for the type T of TYPES
TypeConfig(T) ==
    /\ pc = "idle"
    /\ pc' = "done"
    /\ call' = [op |-> "config", type |-> T]
    /\ ret' = Ret([lookups |-> [i \in 1..Len(LookupNames(T)) |->
                                  [name |-> LookupNames(T)[i],
                                   prettyName |-> lookups(T, LookupNames(T)[i]).pretty_name,
                                   type |-> lookups(T, LookupNames(T)[i]).type_name]],
                   sortedLookups |-> LookupNames(T),
                   defaultLookup |-> default_lookup(T),
                   defaultValue |-> default_value(T)])
    /\ calls' = <<>>
    /\ cache' = cache

\* cls.format_lookup(lookup, value, choices)
FormatLookup(T, lookup, value, choices) ==
    /\ pc = "idle"
    /\ pc' = "done"
    /\ call' = [op |-> "format_lookup", type |-> T, lookup |-> lookup, value |-> value,
                choices |-> choices]
    /\ ret' = format_lookup(T, lookup, value, choices)
    /\ calls' = <<>>
    /\ cache' = cache

\* the caller takes the outcome
Return ==
    /\ pc = "done"
    /\ pc' = "idle"
    /\ call' = NoCall
    /\ ret' = NoCall
    /\ calls' = <<>>
    /\ cache' = cache

Next ==
    \/ \E T \in TYPES :
          \E value \in TextsFor(T, Texts), choices \in ChoicesFor(T), env \in Envs(T) :
             Parse(T, PyStr(value), choices, env)
    \/ \E T \in TYPES :
          \E lookup \in LookupArgs(T) :
             \E value \in TextsFor(TargetOf(T, lookup), LookupTexts),
                   choices \in ChoicesFor(T), env \in Envs(TargetOf(T, lookup)) :
                ParseLookup(T, lookup, PyStr(value), choices, env)
    \/ \E T \in TYPES, value \in FormatValues :
          \E choices \in ChoicesFor(T), lookup \in LookupArgs(T) :
             FormatLookup(T, lookup, value, choices)
    \/ \E T \in TYPES : TypeConfig(T)
    \/ Return

Spec == Init /\ [][Next]_vars

(***************************************************************************)
(* The date-time expressions: calls of DateTimeType.parse with a sequence  *)
(* of clauses                                                              *)
(***************************************************************************)
MaxClauses == 3

\* the clauses an expression is made of: relative ones, one of them an error, and the
\* two resets, in either case
Clauses ==
    {<<"d", "a", "y", "+", "1">>,
     <<"d", "a", "y", "+", "5">>,
     <<"h", "o", "u", "r", "-", "1", "1">>,
     <<"m", "o", "n", "t", "h", "+", "1">>,
     <<"y", "e", "a", "r", "=", "2", "0", "2", "0">>,
     <<"m", "o", "n", "t", "h", "=", "3">>,
     <<"m", "o", "n", "t", "h", "=", "2">>,
     <<"m", "o", "n", "t", "h", "=", "1", "3">>,
     <<"d", "a", "y", "=", "1">>,
     <<"d", "a", "y", "=", "3", "1">>,
     <<"n", "o", "w">>,
     <<"T", "o", "d", "a", "y">>}

\* the text value.split() cuts into the clauses cs
RECURSIVE JoinWs(_)
JoinWs(cs) ==
    IF cs = <<>> THEN <<>>
    ELSE IF Len(cs) = 1 THEN cs[1]
    ELSE cs[1] \o <<" ">> \o JoinWs(Tail(cs))

\* DateTimeType.parse(value, ()) for value the clauses cs joined by blanks
ParseExpression(cs, env) ==
    /\ pc = "idle"
    /\ pc' = "done"
    /\ call' = [op |-> "parse", type |-> "datetime", value |-> PyStr(JoinWs(cs)),
                choices |-> <<>>, env |-> env, clauses |-> cs]
    /\ ret' = parse("datetime", PyStr(JoinWs(cs)), <<>>, env)
    /\ calls' = <<>>
    /\ cache' = cache

NextDate ==
    \/ \E cs \in SeqsUpTo(Clauses, MaxClauses) :
          \E env \in Envs("datetime") : ParseExpression(cs, env)
    \/ Return

SpecDate == Init /\ [][NextDate]_vars

(***************************************************************************)
(* The words of the date-time expressions: calls of DateTimeType.parse     *)
(* with clauses of every branch of the loop                                *)
(***************************************************************************)
MaxWords == 2

\* weekday clauses, sets of fields of the clock, of the week and of the day, words that
\* are no clause or name no field, an ambiguous and an unambiguous absolute value, a
\* relative clause and a reset
Words ==
    {<<"m", "o", "n", "+", "1">>,
     <<"m", "o", "n", "d", "a", "y", "+", "1">>,
     <<"m", "o", "n", "d", "a", "y", "-", "1">>,
     <<"F", "r", "i", "d", "a", "y", "+", "2">>,
     <<"m", "o", "n", "d", "a", "y", "=", "1">>,
     <<"m", "o", "n", "d", "a", "y", "+", "0">>,
     <<"m", "o", "n", "d", "a", "y", "-", "0">>,
     <<"h", "o", "u", "r", "=", "5">>,
     <<"m", "i", "n", "u", "t", "e", "=", "0">>,
     <<"w", "e", "e", "k", "=", "1">>,
     <<"d", "a", "y", "=", "0">>,
     <<"d", "a", "y", "=", "3">>,
     <<"A", "b", "+", "1">>,
     <<"d", "a", "y", "*", "1">>,
     <<"F", "o", "o", "+", "1">>,
     <<"1", "/", "2", "/", "2", "0", "2", "4">>,
     <<"1", ":", "3", "0">>,
     <<"d", "a", "y", "+", "1">>,
     <<"n", "o", "w">>}

NextWords ==
    \/ \E cs \in SeqsUpTo(Words, MaxWords) :
          \E env \in Envs("datetime") : ParseExpression(cs, env)
    \/ Return

SpecWords == Init /\ [][NextWords]_vars

(***************************************************************************)
(* NumberType.get_format_hints                                             *)
(***************************************************************************)
MaxRows == 3

\* a number of a row: m * 10^e; 1.2345 is Decimal(12345, -4)
Decimal(m, e) == [t |-> "decimal", m |-> m, e |-> e]

RECURSIVE Pow10(_)
Pow10(n) == IF n = 0 THEN 1 ELSE 10 * Pow10(n - 1)

\* a > b for two numbers
DecimalGt(a, b) ==
    LET lo == IF a.e < b.e THEN a.e ELSE b.e
    IN a.m * Pow10(a.e - lo) > b.m * Pow10(b.e - lo)

\* the constants of the hint
LowCutOff == Decimal(1, -4)
HighCutOff == Decimal(1, 10)

\* a row of the batch that holds the field, a row without fields, and no row
Row(x) == [t |-> "dict", v |-> <<x>>]
EmptyRow == [t |-> "dict", v |-> <<>>]

\* `row and row[name]`: the row and the value of its field are both true
RowHasValue(row) ==
    /\ row.t = "dict" /\ row.v # <<>>
    /\ row.v[1].t = "decimal" /\ row.v[1].m # 0

\* abs(row[name] > 0.0001): the comparison is made first, and abs of its bool is 1 or 0
AbsOfGreater(x) == IF DecimalGt(x, LowCutOff) THEN 1 ELSE 0

\* the list nums of get_format_hints
RECURSIVE HintNums(_)
HintNums(data) ==
    IF data = <<>> THEN <<>>
    ELSE IF RowHasValue(Head(data)) /\ AbsOfGreater(Head(data).v[1]) # 0
      THEN <<Head(data).v[1]>> \o HintNums(Tail(data))
    ELSE HintNums(Tail(data))

\* the counts get_optimal_decimal_places, which this module imports, may return
DecimalPlaces == {0, 2, 4}

\* the dict get_format_hints returns for the count dp
FormatHints(dp) ==
    [minimumFractionDigits |-> dp, maximumFractionDigits |-> dp, significantFigures |-> 3,
     lowCutOff |-> LowCutOff, highCutOff |-> HighCutOff]

\* the values the rows of a batch hold for the field
RowValues ==
    {PyNone, Decimal(0, 0), Decimal(5, -5), Decimal(1, -4), Decimal(12345, -4),
     Decimal(23456, -4), Decimal(-12345, -4), Decimal(-5, -5)}

Rows == {PyNone, EmptyRow} \cup {Row(x) : x \in RowValues}

\* NumberType.get_format_hints(name, data); calls: the list handed to
\* get_optimal_decimal_places
GetFormatHints(data, dp) ==
    /\ pc = "idle"
    /\ pc' = "done"
    /\ call' = [op |-> "get_format_hints", type |-> "number", data |-> data]
    /\ calls' = <<HintNums(data)>>
    /\ cache' = cache
    /\ ret' = Ret(FormatHints(dp))

NextHints ==
    \/ \E data \in SeqsUpTo(Rows, MaxRows), dp \in DecimalPlaces : GetFormatHints(data, dp)
    \/ Return

SpecHints == Init /\ [][NextHints]_vars

(***************************************************************************)
(* The round trip: a text is parsed, the value is handed to the type's     *)
(* formatter, and the text of what the formatter shows is parsed again     *)
(***************************************************************************)
RoundTypes == {"number", "boolean", "uuid", "duration"}

\* spellings of numbers, booleans, UUIDs and durations, and texts that are none of them
RoundTexts ==
    {<<>>,
     <<"1">>,
     <<" ", "1", "2", " ">>,
     <<"0">>,
     <<"1", ".", "0">>,
     <<"0", "0", "7">>,
     <<"1", "2", ".">>,
     <<"b", "a", "d">>,
     <<"t", "r", "u", "e">>,
     <<"T", "R", "U", "E">>,
     <<"T", "r", "u", "e">>,
     <<"f", "a", "l", "s", "e">>,
     <<"f", "A", "L", "S", "E">>,
     <<"1", "2", "3", "4", "5", "6", "7", "8", "-", "1", "2", "3",
       "4", "-", "5", "6", "7", "8", "-", "1", "2", "3", "4", "-",
       "5", "6", "7", "8", "1", "2", "3", "4", "5", "6", "7", "8">>,
     <<"{", "A", "B", "C", "D", "E", "F", "0", "1", "-", "2", "3",
       "4", "5", "-", "6", "7", "8", "9", "-", "A", "B", "C", "D",
       "-", "E", "F", "0", "1", "2", "3", "4", "5", "6", "7", "8",
       "9", "}">>,
     <<"u", "r", "n", ":", "u", "u", "i", "d", ":", "1", "2", "3",
       "4", "5", "6", "7", "8", "-", "1", "2", "3", "4", "-", "5",
       "6", "7", "8", "-", "1", "2", "3", "4", "-", "5", "6", "7",
       "8", "1", "2", "3", "4", "5", "6", "7", "8">>,
     <<"1", "2", "3", "4", "5", "6", "7", "8", "1", "2", "3", "4",
       "5", "6", "7", "8", "1", "2", "3", "4", "5", "6", "7", "8",
       "1", "2", "3", "4", "5", "6", "a", "b">>,
     <<"1", "2", "3", "4">>,
     <<"5">>,
     <<"9", "0">>,
     <<"1", ":", "3", "0">>,
     <<"1", ":", "0", "2", ":", "0", "3">>,
     <<"1", " ", "0", "2", ":", "0", "3", ":", "0", "4">>,
     <<"2", " ", "0", ":", "0", ":", "5">>,
     <<"1", "0", "0", "0", "0", "0">>,
     <<"2", "5", ":", "0", "0", ":", "0", "0">>,
     <<"1", " ", "d", "a", "y", ",", " ", "0", ":", "0", "0", ":", "0", "5">>,
     <<"3", " ", "d", "a", "y", "s", ",", " ", "1", ":", "0", "0", ":", "0", "0">>,
     <<"1", " ", "h", "o", "u", "r">>}

\* cls.parse(value, ()), the first call of a round trip
RoundParse(T, value) ==
    /\ pc = "idle"
    /\ pc' = "parsed"
    /\ call' = [op |-> "round_trip", type |-> T, value |-> value, parsed |-> NoCall,
                shown |-> NoCall]
    /\ ret' = parse(T, value, <<>>, [now |-> Now0, dbok |-> TRUE])
    /\ calls' = <<>>
    /\ cache' = cache

\* the text was not valid for the type: there is no value to format
RoundInvalid ==
    /\ pc = "parsed"
    /\ ret.val.err # PyNone
    /\ pc' = "done"
    /\ UNCHANGED <<call, ret, calls, cache>>

\* cls.get_formatter(())(value) on the value the parse returned
RoundFormat ==
    /\ pc = "parsed"
    /\ ret.val.err = PyNone
    /\ pc' = "formatted"
    /\ call' = [call EXCEPT !.parsed = ret.val.value]
    /\ ret' = _get_formatter(call.type, <<>>, ret.val.value)
    /\ calls' = <<>>
    /\ cache' = cache

\* cls.parse(str(shown), ()) on the text of the value the formatter returned
RoundReparse ==
    /\ pc = "formatted"
    /\ ~Raised(ret)
    /\ pc' = "done"
    /\ call' = [call EXCEPT !.shown = ret.val]
    /\ ret' = parse(call.type, PyStr(StrOf(ret.val)), <<>>, [now |-> Now0, dbok |-> TRUE])
    /\ calls' = <<>>
    /\ cache' = cache

NextRound ==
    \/ \E T \in RoundTypes, value \in RoundTexts : RoundParse(T, PyStr(value))
    \/ RoundInvalid
    \/ RoundFormat
    \/ RoundReparse
    \/ Return

SpecRound == Init /\ [][NextRound]_vars

(***************************************************************************)
(* The definition of a type: TypeMeta.__init__ runs when a class statement *)
(* with the attributes raw_type and element_type is executed               *)
(***************************************************************************)
\* a metaclass that asserts nothing
TypeMetaInitUnchecked(raw, elem) == Ret(PyNone)

\* TypeMeta.__init__ for a class whose raw_type and element_type are raw and elem ("" for
\* None)
TypeMetaInit(raw, elem) ==
    IF raw # "" /\ elem # "" /\ element_type(raw) # raw_type(elem) THEN AssertionError
    ELSE Ret(PyNone)

\* a class statement with raw_type = raw and element_type = elem
DefineType(raw, elem) ==
    /\ pc = "idle"
    /\ pc' = "done"
    /\ call' = [op |-> "define", raw_type |-> raw, element_type |-> elem]
    /\ ret' = TypeMetaInit(raw, elem)
    /\ calls' = <<>>
    /\ cache' = cache

NextDefine ==
    \/ \E raw \in TYPES \cup {""}, elem \in TYPES \cup {""} : DefineType(raw, elem)
    \/ Return

SpecDefine == Init /\ [][NextDefine]_vars

(***************************************************************************)
(* The cache of the regex type: calls of RegexType.parse with patterns the *)
(* process has and has not parsed before                                   *)
(***************************************************************************)
MaxPatterns == 5

\* pairwise distinct patterns: "a", "aa", ...
Patterns == {[i \in 1..n |-> "a"] : n \in 1..MaxPatterns}

NextRegex ==
    \/ \E value \in Patterns, env \in Envs("regex") : Parse("regex", PyStr(value), <<>>, env)
    \/ Return

SpecRegex == Init /\ [][NextRegex]_vars

(***************************************************************************)
(* The two date types on the same expressions: DateTimeType.parse and      *)
(* DateType.parse of expressions, of blank texts and of the empty text     *)
(***************************************************************************)
DateTypes == {"datetime", "date"}

\* texts of blanks alone, and an expression with blanks around it
BlankTexts == {<<" ">>, <<" ", " ">>}

DateTexts ==
    {JoinWs(cs) : cs \in SeqsUpTo(Words, MaxWords)}
      \cup BlankTexts \cup {<<" ", "d", "a", "y", "+", "1", " ">>}

NextDates ==
    \/ \E T \in DateTypes, value \in DateTexts, env \in Envs("datetime") :
          Parse(T, PyStr(value), <<>>, env)
    \/ Return

SpecDates == Init /\ [][NextDates]_vars

(***************************************************************************)
(* The QR code view: qr_code_request, its form and its rewrite of Google   *)
(* Drive sharing links                                                     *)
(***************************************************************************)
\* the text of the pattern before its group, with the escapes read
DrivePrefix ==
    <<"h", "t", "t", "p", "s", ":", "/", "/", "d", "r", "i", "v", "e", ".",
      "g", "o", "o", "g", "l", "e", ".", "c", "o", "m", "/", "f", "i", "l",
      "e", "/", "d", "/">>

\* the text of the pattern after its group
DriveSuffix ==
    <<"/", "v", "i", "e", "w", "?", "u", "s", "p", "=", "s", "h", "a", "r",
      "i", "n", "g">>

\* the replacement template before \1: re keeps the backslash of "\.", which is no
\* escape of a template
DriveReplacement ==
    <<"h", "t", "t", "p", "s", ":", "/", "/", "d", "r", "i", "v", "e", "\\",
      ".", "g", "o", "o", "g", "l", "e", "\\", ".", "c", "o", "m", "/", "u",
      "c", "?", "e", "x", "p", "o", "r", "t", "=", "d", "o", "w", "n", "l",
      "o", "a", "d", "&", "i", "d", "=">>

\* the least position from which sub occurs in s at or after position from, 0 when none
IndexFrom(s, sub, from) ==
    LET at == {i \in from..(Len(s) - Len(sub) + 1) : SubSeq(s, i, i + Len(sub) - 1) = sub}
    IN IF at = {} THEN 0 ELSE CHOOSE i \in at : \A j \in at : i <= j

\* modify_google_drive_url(url): re.sub replaces every match, leftmost first, the group
\* (.+?) taking the fewest characters, at least one and none of them a line break
RECURSIVE modify_google_drive_url(_)
modify_google_drive_url(url) ==
    LET stop == IndexFrom(url, DriveSuffix, Len(DrivePrefix) + 2)
        group == SubSeq(url, Len(DrivePrefix) + 1, stop - 1)
    IN IF url = <<>> THEN <<>>
       ELSE IF StartsWith(url, DrivePrefix) /\ stop # 0 /\ ~Contains(group, "\n")
       THEN DriveReplacement \o group
              \o modify_google_drive_url(SubSeq(url, stop + Len(DriveSuffix), Len(url)))
       ELSE <<url[1]>> \o modify_google_drive_url(Tail(url))

SizeMin == 1
BorderMin == 0
ColorMaxLength == 7

\* a field the request does not carry
Missing == [t |-> "missing"]

\* forms.CharField.clean: the text stripped; <<>> for an error (a required field left
\* empty, a text longer than max_length; max_length 0 for none)
CleanChar(raw, max_length) ==
    LET text == IF raw.t = "missing" THEN <<>> ELSE Strip(raw.v)
    IN IF text = <<>> \/ (max_length # 0 /\ Len(text) > max_length) THEN <<>>
       ELSE <<PyStr(text)>>

\* forms.IntegerField.clean for a text of an optional sign and digits: the number, or <<>>
\* for an error (a required field left empty, no number, a number below min_value)
CleanInteger(raw, min_value) ==
    LET text == IF raw.t = "missing" THEN <<>> ELSE Strip(raw.v)
        digits == IF text # <<>> /\ text[1] = "-" THEN Tail(text) ELSE text
        n == IF text # <<>> /\ text[1] = "-" THEN 0 - IntOf(digits) ELSE IntOf(digits)
    IN IF digits = <<>> \/ ~AllIn(digits, Digits) \/ n < min_value THEN <<>>
       ELSE <<PyNum(n)>>

\* forms.BooleanField(required=False).clean on what the checkbox widget reads: False for
\* a field the request does not carry, for "false" and for the empty text
CleanBoolean(raw) ==
    IF raw.t = "missing" THEN PyBool(FALSE)
    ELSE PyBool(Lower(raw.v) # <<"f", "a", "l", "s", "e">> /\ raw.v # <<>>)

\* QRCodeForm(request.POST): the cleaned value, or the error, of each field
QRCodeForm(post) ==
    [data |-> CleanChar(post.data, 0),
     size |-> CleanInteger(post.size, SizeMin),
     border |-> CleanInteger(post.border, BorderMin),
     fill_color |-> CleanChar(post.fill_color, ColorMaxLength),
     back_color |-> CleanChar(post.back_color, ColorMaxLength),
     transparent_background |-> CleanBoolean(post.transparent_background),
     is_google_drive_link |-> CleanBoolean(post.is_google_drive_link)]

\* form.is_valid()
is_valid(form) ==
    /\ form.data # <<>> /\ form.size # <<>> /\ form.border # <<>>
    /\ form.fill_color # <<>> /\ form.back_color # <<>>

\* the payload the QR code encodes
QrData(form) ==
    IF Truthy(form.is_google_drive_link) THEN PyStr(modify_google_drive_url(form.data[1].v))
    ELSE form.data[1]

\* a background colour that is dropped whenever the box is in the request
BackColorUnlessSent(form) ==
    IF form.transparent_background.t = "bool" THEN PyNone ELSE form.back_color[1]

\* the back_color handed to make_image
BackColor(form) ==
    IF Truthy(form.transparent_background) THEN PyNone ELSE form.back_color[1]

\* the calls of a valid POST on the qrcode library
QrCalls(form) ==
    <<[fn |-> "QRCode", version |-> 1, box_size |-> form.size[1], border |-> form.border[1]],
      [fn |-> "add_data", data |-> QrData(form)],
      [fn |-> "make_image", fill_color |-> form.fill_color[1], back_color |-> BackColor(form)]>>

\* render(request, 'qrapp/qr_form.html', context); image: the calls that drew the picture
\* whose base64 text qr_code_data carries, <<>> for a context without the key
Render(form, image) ==
    Ret([template |-> "qrapp/qr_form.html",
         keys |-> IF Len(image) = 0 THEN {"form"} ELSE {"form", "qr_code_data"},
         form |-> form,
         qr_code_data |-> image])

\* an unbound form
NoForm == [t |-> "unbound"]

\* qr_code_request(request); drawn: the qrcode library draws the picture, and does not
\* raise on the colours or the size of the payload
qr_code_request(method, post, drawn) ==
    /\ pc = "idle"
    /\ pc' = "done"
    /\ call' = [op |-> "qr_code_request", method |-> method, post |-> post, drawn |-> drawn]
    /\ IF method # "POST"
       THEN ret' = Render(NoForm, <<>>) /\ calls' = <<>>
       ELSE IF ~is_valid(QRCodeForm(post))
       THEN ret' = Render(QRCodeForm(post), <<>>) /\ calls' = <<>>
       ELSE /\ calls' = QrCalls(QRCodeForm(post))
            /\ ret' = IF drawn THEN Render(QRCodeForm(post), QrCalls(QRCodeForm(post)))
                      ELSE Raise("Exception", <<"q", "rcode">>)
    /\ cache' = cache

\* the data field of the requests
DataFields ==
    {Missing,
     \* a plain text
     PyStr(<<"h", "e", "l", "l", "o">>),
     \* a padded text
     PyStr(<<" ", "h", "i", " ">>),
     \* a sharing link
     PyStr(<<"h", "t", "t", "p", "s", ":", "/", "/", "d", "r", "i", "v", "e", ".",
       "g", "o", "o", "g", "l", "e", ".", "c", "o", "m", "/", "f", "i", "l",
       "e", "/", "d", "/", "a", "B", "1", "/", "v", "i", "e", "w", "?", "u",
       "s", "p", "=", "s", "h", "a", "r", "i", "n", "g">>),
     \* a sharing link inside a text
     PyStr(<<"s", "e", "e", " ", "h", "t", "t", "p", "s", ":", "/", "/", "d", "r",
       "i", "v", "e", ".", "g", "o", "o", "g", "l", "e", ".", "c", "o", "m",
       "/", "f", "i", "l", "e", "/", "d", "/", "x", "/", "v", "i", "e", "w",
       "?", "u", "s", "p", "=", "s", "h", "a", "r", "i", "n", "g", " ", "n",
       "o", "w">>),
     \* a link without its query
     PyStr(<<"h", "t", "t", "p", "s", ":", "/", "/", "d", "r", "i", "v", "e", ".",
       "g", "o", "o", "g", "l", "e", ".", "c", "o", "m", "/", "f", "i", "l",
       "e", "/", "d", "/", "a", "B", "1", "/", "v", "i", "e", "w">>),
     \* a sharing link with no file id
     PyStr(<<"h", "t", "t", "p", "s", ":", "/", "/", "d", "r", "i", "v", "e", ".",
       "g", "o", "o", "g", "l", "e", ".", "c", "o", "m", "/", "f", "i", "l",
       "e", "/", "d", "/", "/", "v", "i", "e", "w", "?", "u", "s", "p", "=",
       "s", "h", "a", "r", "i", "n", "g">>),
     \* only spaces
     PyStr(<<" ", " ">>)}

SizeFields == {Missing, PyStr(<<"0">>), PyStr(<<"1", "0">>)}
BorderFields == {PyStr(<<"0">>), PyStr(<<"4">>), PyStr(<<"-", "1">>), PyStr(<<"x">>)}
FillFields == {PyStr(<<"#", "0", "0", "0", "0", "0", "0">>), PyStr(<<"d", "a", "r", "k", "b", "l", "u", "e">>)}
BackFields == {Missing, PyStr(<<"#", "F", "F", "F", "F", "F", "F">>), PyStr(<<" ", "r", "e", "d", " ">>)}
BoxFields == {Missing, PyStr(<<"o", "n">>), PyStr(<<"f", "a", "l", "s", "e">>)}

\* request.POST of a POST
Posts ==
    [data : DataFields, size : SizeFields, border : BorderFields, fill_color : FillFields,
     back_color : BackFields, transparent_background : BoxFields,
     is_google_drive_link : BoxFields]

\* request.POST of a request that is no POST
NoPost ==
    [data |-> Missing, size |-> Missing, border |-> Missing, fill_color |-> Missing,
     back_color |-> Missing, transparent_background |-> Missing,
     is_google_drive_link |-> Missing]

NextQr ==
    \/ \E post \in Posts, drawn \in BOOLEAN : qr_code_request("POST", post, drawn)
    \/ \E method \in {"GET", "HEAD"} : qr_code_request(method, NoPost, TRUE)
    \/ Return

SpecQr == Init /\ [][NextQr]_vars

(***************************************************************************)
(* The claims about the engine, on the states a call has returned in       *)
(***************************************************************************)
Returned(op) == pc = "done" /\ call.op = op

\* an outcome that is the pair (None, msg) of a failed parse
IsError(r) == ~Raised(r) /\ r.val.value = PyNone /\ r.val.err # PyNone

\* an outcome that is the pair (value, None) of a successful parse
IsValue(r) == ~Raised(r) /\ r.val.err = PyNone

ErrorText(r) == Text(r.val.err.v)

\* C1: for every registered type, text and choices list, parse never raises: it returns
\* (value, None), or (None, msg) with msg a non-empty string whose first character is
\* upper-cased
C1_ParseNeverRaises ==
    Returned("parse") =>
        \/ IsValue(ret)
        \/ /\ IsError(ret)
           /\ ret.val.err.t = "str"
           /\ ret.val.err.v # <<>>
           /\ ret.val.err.v[1] \notin Lowers
           /\ UpperChar(ret.val.err.v[1]) = ret.val.err.v[1]

\* a number parse of a text that is no number returned float()'s message, capitalised
C1_Witness ==
    /\ Returned("parse")
    /\ call.type = "number" /\ call.choices = <<>> /\ call.value = PyStr(<<"b", "a", "d">>)
    /\ IsError(ret)
    /\ ErrorText(ret) = "Could not convert string to float: 'bad'"

\* C2: parse_lookup with a lookup name the type's table does not hold returns
\* (None, "Bad lookup") for every text and choices, and no parse is called
C2_BadLookup ==
    (Returned("parse_lookup") /\ ~HasLookup(call.type, call.lookup)) =>
        /\ IsError(ret)
        /\ ErrorText(ret) = "Bad lookup"
        /\ calls = <<>>

\* parse_lookup of a number field was called with a lookup name no table holds
C2_Witness ==
    /\ Returned("parse_lookup")
    /\ call.lookup = BogusLookup /\ call.type = "number" /\ call.value = PyStr(<<"1">>)
    /\ IsError(ret) /\ ErrorText(ret) = "Bad lookup" /\ calls = <<>>

\* C3: for a lookup whose keep-choices flag is not true, parse_lookup equals the target
\* type's parse of the text with no choices, whatever the choices; when the flag is
\* true the caller's choices reach the target's parse unchanged
C3_KeepChoices ==
    (Returned("parse_lookup") /\ HasLookup(call.type, call.lookup)) =>
        LET l == lookups(call.type, call.lookup)
            passed == IF l.keep_choices = PyBool(TRUE) THEN call.choices ELSE <<>>
        IN /\ l.type_name \in TYPES
           /\ calls = <<[type |-> l.type_name, value |-> call.value, choices |-> passed]>>
           /\ ret = parse(l.type_name, call.value, passed, call.env)

\* a JSON has_key lookup, whose flag is left unspecified, was called with choices and
\* its text parsed as a string without them
C3_Witness ==
    /\ Returned("parse_lookup")
    /\ call.type = "json" /\ call.lookup = "has_key" /\ call.choices # <<>>
    /\ lookups("json", "has_key").keep_choices = PyNone
    /\ calls[1].choices = <<>>
    /\ IsValue(ret) /\ ret.val.value = call.value

\* C4: format_lookup is total: for every type, lookup name (known or not), value and
\* choices list it returns a display value or an error, and no exception escapes
C4_FormatLookupTotal == Returned("format_lookup") => ~Raised(ret)

\* the outcome of the tri-state type's formatter, called with no choices
IsNullFormat(value) == _get_formatter("isnull", <<>>, value)

\* is_null on the type T behaves like the tri-state type called with no choices
IsNullLookupOf(T) ==
    /\ HasLookup(T, "is_null")
    /\ Returned("parse_lookup") => ret = parse("isnull", call.value, <<>>, call.env)
    /\ Returned("format_lookup") =>
          /\ ret = IsNullFormat(call.value)
          /\ call.value \in {PyNone, PyBool(TRUE)} => ret = Ret(PyStr(<<"I", "s", "N", "u", "l", "l">>))
          /\ call.value = PyBool(FALSE) =>
                ret = Ret(PyStr(<<"N", "o", "t", "N", "u", "l", "l">>))

IsNullCall ==
    pc = "done" /\ call.op \in {"parse_lookup", "format_lookup"} /\ call.lookup = "is_null"

ListOf(value) == _json_loads(value).val.v

IsList(value) == ~Raised(_json_loads(value)) /\ _json_loads(value).val.t = "list"

\* C6: array parse is fail-fast: with ek the first element the element type fails to
\* parse, the result is (None, msg) with msg the message of E.parse(ek, choices), the
\* elements after ek are not parsed and no partial list is returned; when every element
\* parses the result is the list of the parsed elements in their order
C6_ArrayFailFast ==
    (Returned("parse") /\ call.type \in ArrayTypes /\ IsList(call.value)) =>
        LET E == element_type(call.type)
            es == ListOf(call.value)
            one(i) == parse(E, es[i], call.choices, call.env)
            failing == {i \in 1..Len(es) : ~IsValue(one(i))}
            k == CHOOSE i \in failing : \A j \in failing : i <= j
            handed(n) == [i \in 1..n |-> [type |-> E, value |-> es[i],
                                           choices |-> call.choices]]
        IN IF failing = {}
           THEN /\ IsValue(ret)
                /\ ret.val.value = PyList([i \in 1..Len(es) |-> one(i).val.value])
                /\ calls = handed(Len(es))
           ELSE /\ IsError(ret)
                /\ IsError(one(k))
                /\ ret.val.err = one(k).val.err
                /\ calls = handed(k)

\* a number array of three elements whose second is no number
C6_Witness ==
    /\ Returned("parse")
    /\ call.type = "numberarray" /\ call.choices = <<>>
    /\ IsList(call.value) /\ Len(ListOf(call.value)) = 3
    /\ Len(calls) = 2
    /\ IsError(ret)
    /\ ErrorText(ret) = "Could not convert string to float: 'bad'"

\* the pairs of the choices whose raw value equals value, as Python compares them
RawAt(choices, value) == {i \in 1..Len(choices) : PyEq(choices[i][1], value)}

\* the pairs of the choices whose label is value
LabelAt(choices, value) == {i \in 1..Len(choices) : choices[i][2] = value}

\* C7: for a choice type with non-empty choices, the formatter maps a raw value of the
\* choices to its label and any other raw value to itself, and parse maps a label of
\* the choices to a raw value paired with it and any other label to the error
\* "Unknown choice '<label>'" with no value
C7_ChoiceLenientStrict ==
    /\ (/\ Returned("format_lookup") /\ call.type \in ChoiceTypes /\ call.lookup = "equals"
        /\ call.choices # <<>> /\ call.value.t # "list") =>
          /\ ~Raised(ret)
          /\ IF RawAt(call.choices, call.value) = {} THEN ret.val = call.value
             ELSE \E i \in RawAt(call.choices, call.value) : ret.val = call.choices[i][2]
    /\ (Returned("parse") /\ call.type \in ChoiceTypes /\ call.choices # <<>>) =>
          IF LabelAt(call.choices, call.value) = {}
          THEN /\ IsError(ret)
               /\ ErrorText(ret) = "Unknown choice '" \o Text(call.value.v) \o "'"
          ELSE /\ IsValue(ret)
               /\ \E i \in LabelAt(call.choices, call.value) :
                     ret.val.value = call.choices[i][1]

\* a label the choices do not hold was parsed
C7_Witness ==
    /\ Returned("parse")
    /\ call.type = "stringchoice" /\ call.choices # <<>>
    /\ call.value = PyStr(<<"B", "l", "u", "e">>)
    /\ IsError(ret) /\ ErrorText(ret) = "Unknown choice 'Blue'"

\* a call of the parse of the JSON compound sub-type, directly or through
\* field_equals and not_field_equals
JsonFieldCall ==
    \/ Returned("parse") /\ call.type = "jsonfield" /\ call.choices = <<>>
    \/ /\ Returned("parse_lookup") /\ call.type = "json"
       /\ call.lookup \in {"field_equals", "not_field_equals"}

\* C8: the JSON compound sub-type splits field|jsonValue at the first '|': without a
\* '|' the error is "Missing separator '|'", with an empty field "Invalid field name",
\* with a remainder that is no JSON "Invalid JSON value", and else the result is the
\* pair of the field and the decoded value
C8_JsonField ==
    JsonFieldCall =>
        LET v == Strip(call.value.v)
            at == Find(v, "|")
            field == SubSeq(v, 1, at - 1)
            rest == SubSeq(v, at + 1, Len(v))
        IN IF ~Contains(v, "|")
             THEN IsError(ret) /\ ErrorText(ret) = "Missing separator '|'"
           ELSE IF field = <<>>
             THEN IsError(ret) /\ ErrorText(ret) = "Invalid field name"
           ELSE IF JsonDecode(rest) = <<>>
             THEN IsError(ret) /\ ErrorText(ret) = "Invalid JSON value"
           ELSE IsValue(ret) /\ ret.val.value = PyList(<<PyStr(field), JsonDecode(rest)[1]>>)

\* the outcome of the date-time parse of the clauses cs at the instant of the call
Evaluated(cs) == parse("datetime", PyStr(JoinWs(cs)), <<>>, call.env)

\* the date-time value a parse returned
DateTimeOf(r) == r.val.value.v

Units == {<<"y", "e", "a", "r">>, <<"m", "o", "n", "t", "h">>, <<"w", "e", "e", "k">>,
          <<"d", "a", "y">>, <<"h", "o", "u", "r">>, <<"m", "i", "n", "u", "t", "e">>,
          <<"s", "e", "c", "o", "n", "d">>}

\* the seconds of one unit of the clock and of the days
UnitSeconds(unit) ==
    CASE unit = <<"w", "e", "e", "k">> -> 604800
      [] unit = <<"d", "a", "y">> -> 86400
      [] unit = <<"h", "o", "u", "r">> -> 3600
      [] unit = <<"m", "i", "n", "u", "t", "e">> -> 60
      [] unit = <<"s", "e", "c", "o", "n", "d">> -> 1

\* the day of dt, counted from 0001-01-01, and the seconds of its day that have passed
DayOf(dt) == ToOrdinal(dt.year, dt.month, dt.day)
ClockOf(dt) == dt.hour * 3600 + dt.minute * 60 + dt.second

\* dt with its day no later than the last day of its month
Clipped(dt) ==
    [dt EXCEPT !.day = IF dt.day > DaysInMonth(dt.year, dt.month)
                       THEN DaysInMonth(dt.year, dt.month) ELSE dt.day]

\* a parse that returned r has added d units to the date-time a
Added(a, unit, d, r) ==
    IF unit \in {<<"y", "e", "a", "r">>, <<"m", "o", "n", "t", "h">>}
    THEN LET idx == a.year * 12 + (a.month - 1) + (IF unit = <<"m", "o", "n", "t", "h">>
                                                   THEN d ELSE 12 * d)
             y == FloorDiv(idx, 12)
         IN IF y < MINYEAR \/ y > MAXYEAR THEN IsError(r)
            ELSE /\ IsValue(r)
                 /\ DateTimeOf(r) = Clipped([a EXCEPT !.year = y, !.month = idx - 12 * y + 1])
    ELSE LET to == ClockOf(a) + d * UnitSeconds(unit)
             day == DayOf(a) + FloorDiv(to, 86400)
         IN IF day < 1 \/ day > MaxOrdinal THEN IsError(r)
            ELSE /\ IsValue(r)
                 /\ DayOf(DateTimeOf(r)) = day
                 /\ ClockOf(DateTimeOf(r)) = to - 86400 * FloorDiv(to, 86400)
                 /\ DateTimeOf(r).microsecond = a.microsecond

\* a parse that returned r has set the field unit of the date-time a to k > 0; with
\* clipping, a day past the end of the month becomes the month's last day, and a month
\* or a year the calendar does not have is an error
WasSet(a, unit, k, r, clipping) ==
    LET field == Text(unit)
        to == [a EXCEPT ![field] = k]
    IN IF ~clipping THEN IsValue(r) /\ DateTimeOf(r) = to
       ELSE IF field = "month" /\ k > 12
         THEN /\ IsError(r)
              /\ ErrorText(r) = "Bad month number " \o Text(StrOfInt(k)) \o "; must be 1-12"
       ELSE IF field = "year" /\ k > MAXYEAR THEN IsError(r)
       ELSE IsValue(r) /\ DateTimeOf(r) = Clipped(to)

\* the call parsed the clauses cs, the last a relative one of a unit: the clauses
\* before it gave the accumulator, or the error, and the last one acted on it
AppliedLast(cs, r, clipping) ==
    LET m == ClauseMatch(Lower(cs[Len(cs)]))
        before == Evaluated(SubSeq(cs, 1, Len(cs) - 1))
        a == DateTimeOf(before)
        k == IntOf(m[3])
    IN (m # <<>> /\ m[1] \in Units) =>
          IF ~IsValue(before) THEN r = before
          ELSE CASE m[2] = "+" -> Added(a, m[1], k, r)
                 [] m[2] = "-" -> Added(a, m[1], -k, r)
                 [] m[2] = "=" ->
                      (m[1] \in {<<"y", "e", "a", "r">>, <<"m", "o", "n", "t", "h">>,
                                 <<"d", "a", "y">>} /\ k > 0)
                         => WasSet(a, m[1], k, r, clipping)

\* the two expressions the specification works out at 2024-01-15T10:00:00
Examples(cs, r) ==
    /\ cs = <<<<"d", "a", "y", "+", "1">>>> =>
          IsValue(r) /\ r.val.value = PyDT(2024, 1, 16, 10, 0, 0, 0)
    /\ cs = <<<<"y", "e", "a", "r", "=", "2", "0", "2", "0">>,
              <<"m", "o", "n", "t", "h", "=", "3">>, <<"d", "a", "y", "=", "1">>>> =>
          IsValue(r) /\ r.val.value = PyDT(2020, 3, 1, 10, 0, 0, 0)

\* C9, as stated: with the instant fixed at N the clauses act left to right on an
\* accumulator that starts at N; unit+k and unit-k add and subtract k units, and
\* year=k, month=k, day=k (k > 0) set that one field and leave every other field
\* unchanged; at N = 2024-01-15T10:00:00 "day+1" gives 2024-01-16T10:00:00 and
\* "year=2020 month=3 day=1" gives 2020-03-01T10:00:00
C9_SetsOneField ==
    (Returned("parse") /\ call.env.now = Now0) =>
        /\ call.clauses = <<>> => IsValue(ret) /\ DateTimeOf(ret) = Now0
        /\ call.clauses # <<>> => AppliedLast(call.clauses, ret, FALSE)
        /\ Examples(call.clauses, ret)

\* C9, amended: the same, but year=k and month=k also move a day the new month does not
\* have to the month's last day, day=k sets the day to the month's last day when k is
\* past it, and month=k with k > 12 or year=k with k > 9999 is an error
C9_SetsOneFieldClipped ==
    (Returned("parse") /\ call.env.now = Now0) =>
        /\ call.clauses = <<>> => IsValue(ret) /\ DateTimeOf(ret) = Now0
        /\ call.clauses # <<>> => AppliedLast(call.clauses, ret, TRUE)
        /\ Examples(call.clauses, ret)

\* "month=2 day=31" was parsed in the leap year 2024: the day is the 29th
C9_Witness ==
    /\ Returned("parse") /\ call.env.now = Now0
    /\ call.clauses = <<<<"m", "o", "n", "t", "h", "=", "2">>, <<"d", "a", "y", "=", "3", "1">>>>
    /\ IsValue(ret) /\ ret.val.value = PyDT(2024, 2, 29, 10, 0, 0, 0)

IsReset(clause) == Lower(clause) \in {<<"n", "o", "w">>, <<"t", "o", "d", "a", "y">>}

\* C10: a later reset discards every earlier mutation: for clauses P that all evaluate
\* without error and any clauses S, "P now S" gives what "now S" gives and "P today S"
\* what "today S" gives; at 2024-01-15T10:00:00 "day+5 now" gives 2024-01-15T10:00:00
C10_ResetDiscards ==
    Returned("parse") =>
        /\ \A i \in 1..Len(call.clauses) :
              (IsReset(call.clauses[i]) /\ IsValue(Evaluated(SubSeq(call.clauses, 1, i - 1))))
                 => ret = Evaluated(SubSeq(call.clauses, i, Len(call.clauses)))
        /\ (/\ call.clauses = <<<<"d", "a", "y", "+", "5">>, <<"n", "o", "w">>>>
            /\ call.env.now = Now0) =>
              IsValue(ret) /\ ret.val.value = PyDT(2024, 1, 15, 10, 0, 0, 0)

\* "day+5 Today day+1" was parsed: the five days are gone, the one day is not
C10_Witness ==
    /\ Returned("parse") /\ call.env.now = Now0
    /\ call.clauses = <<<<"d", "a", "y", "+", "5">>, <<"T", "o", "d", "a", "y">>,
                        <<"d", "a", "y", "+", "1">>>>
    /\ IsValue(ret) /\ ret.val.value = PyDT(2024, 1, 16, 0, 0, 0, 0)

\* the names of the days of the week, Monday first
DayNames ==
    <<<<"m", "o", "n", "d", "a", "y">>,
      <<"t", "u", "e", "s", "d", "a", "y">>,
      <<"w", "e", "d", "n", "e", "s", "d", "a", "y">>,
      <<"t", "h", "u", "r", "s", "d", "a", "y">>,
      <<"f", "r", "i", "d", "a", "y">>,
      <<"s", "a", "t", "u", "r", "d", "a", "y">>,
      <<"s", "u", "n", "d", "a", "y">>>>

\* the days of the week a word of three letters or more names
NamedDays(word) == {i \in 1..7 : Len(word) >= 3 /\ StartsWith(DayNames[i], word)}

\* the days from a day of the week `from` to the next day of the week `to` strictly after
\* it (datetime's numbering, Monday 0): 1 .. 7
DaysUntil(from, to) == ((to - from + 6) % 7) + 1

\* C11: when the instant is a Monday "mon+1" parses without error and gives the Monday
\* seven days later; in general <weekday>+N (N > 0) moves the accumulator to the N-th
\* such weekday strictly after the accumulator's day, and <weekday>-N to the N-th
\* strictly before it
C11_WeekdayStrictlyAfter ==
    (Returned("parse") /\ call.clauses # <<>>) =>
        LET cs == call.clauses
            m == ClauseMatch(Lower(cs[Len(cs)]))
            before == Evaluated(SubSeq(cs, 1, Len(cs) - 1))
            a == DateTimeOf(before)
            n == IntOf(m[3])
            wd == (CHOOSE i \in NamedDays(m[1]) : TRUE) - 1
        IN /\ (/\ m # <<>> /\ NamedDays(m[1]) # {} /\ m[2] \in {"+", "-"} /\ n > 0
               /\ IsValue(before)) =>
                 /\ IsValue(ret)
                 /\ m[2] = "+" =>
                       DayOf(DateTimeOf(ret))
                         = DayOf(a) + DaysUntil(Weekday(a), wd) + 7 * (n - 1)
                 /\ m[2] = "-" =>
                       DayOf(DateTimeOf(ret))
                         = DayOf(a) - DaysUntil(wd, Weekday(a)) - 7 * (n - 1)
           /\ (cs = <<<<"m", "o", "n", "+", "1">>>> /\ Weekday(call.env.now) = 0) =>
                 /\ IsValue(ret)
                 /\ DayOf(DateTimeOf(ret)) = DayOf(call.env.now) + 7

\* |x| > 0.0001 for a number x
MagnitudeAboveCutOff(x) == DecimalGt(x, LowCutOff) \/ DecimalGt(Decimal(-x.m, x.e), LowCutOff)

\* the values of the rows whose magnitude is above the cut-off, in the order of the rows
RECURSIVE AboveCutOff(_)
AboveCutOff(data) ==
    IF data = <<>> THEN <<>>
    ELSE IF /\ Head(data).t = "dict" /\ Head(data).v # <<>>
            /\ Head(data).v[1].t = "decimal" /\ MagnitudeAboveCutOff(Head(data).v[1])
      THEN <<Head(data).v[1]>> \o AboveCutOff(Tail(data))
    ELSE AboveCutOff(Tail(data))

\* C12: get_format_hints bases the fractional-digit count on exactly the row values v
\* with |v| > 0.0001, of either sign (empty rows, null and zero values are left out), so
\* of [0.00005, 1.2345, 2.3456] only 1.2345 and 2.3456 are used; the hint sets
\* minimumFractionDigits = maximumFractionDigits = that count, significantFigures = 3,
\* lowCutOff = 0.0001 and highCutOff = 1e10
C12_HintsOnMagnitude ==
    Returned("get_format_hints") =>
        /\ calls = <<AboveCutOff(call.data)>>
        /\ call.data = <<Row(Decimal(5, -5)), Row(Decimal(12345, -4)), Row(Decimal(23456, -4))>>
              => calls = << <<Decimal(12345, -4), Decimal(23456, -4)>> >>
        /\ ~Raised(ret)
        /\ ret.val.minimumFractionDigits = ret.val.maximumFractionDigits
        /\ ret.val.significantFigures = 3
        /\ ret.val.lowCutOff = Decimal(1, -4)
        /\ ret.val.highCutOff = Decimal(1, 10)

Before(cs, i) == Evaluated(SubSeq(cs, 1, i - 1))

\* the outcome of the clauses up to the i-th one
UpTo(cs, i) == Evaluated(SubSeq(cs, 1, i))

\* the i-th clause is reached by the absolute-date branch: the clauses before it evaluated
\* without error, and it is neither a reset nor of one of the two ISO patterns
ReachesDateParse(cs, i) ==
    /\ IsValue(Before(cs, i))
    /\ ~IsReset(cs[i])
    /\ ~LooksLikeIsoDate(Lower(cs[i]))

\* the day-first / year-first interpretations of a clause on the accumulator a
Interpretations(clause, a) ==
    <<dateutil_parse(Lower(clause), FALSE, FALSE, _truncate_dt(a)),
      dateutil_parse(Lower(clause), TRUE, FALSE, _truncate_dt(a)),
      dateutil_parse(Lower(clause), FALSE, TRUE, _truncate_dt(a)),
      dateutil_parse(Lower(clause), TRUE, TRUE, _truncate_dt(a))>>

AllParse(all) == \A k \in 1..4 : ~Raised(all[k])

Ambiguous(all) == AllParse(all) /\ \E j, k \in 1..4 : all[j].val # all[k].val

Agreeing(all) == AllParse(all) /\ \A j, k \in 1..4 : all[j].val = all[k].val

ReachesRelative(cs, i) ==
    /\ ReachesDateParse(cs, i)
    /\ ~AllParse(Interpretations(cs[i], DateTimeOf(Before(cs, i))))
    /\ ClauseMatch(Lower(cs[i])) # <<>>

\* what the word of a relative clause resolves to: the entry of the first table key that
\* is a prefix of it, None when there is none
Resolved(word) ==
    LET hits == {k \in 1..Len(_clause_types) : StartsWith(word, _clause_types[k][1])}
    IN IF hits = {} THEN PyNone
       ELSE _clause_types[CHOOSE k \in hits : \A j \in hits : k <= j][2]

\* the i-th clause is <word>=N with the word resolving to one of the units
SetsUnit(cs, i, units) ==
    /\ ReachesRelative(cs, i)
    /\ ClauseMatch(Lower(cs[i]))[2] = "="
    /\ Resolved(ClauseMatch(Lower(cs[i]))[1]) \in {PyStr(<<u>>) : u \in units}

FieldWord(cs, i) == Text(ClauseMatch(Lower(cs[i]))[1])

SetTo(cs, i) == IntOf(ClauseMatch(Lower(cs[i]))[3])

UnitOf(cs, i) == Text(Resolved(ClauseMatch(Lower(cs[i]))[1]).v)

DateUnits == {"year", "month", "day"}

ClockUnits == {"hour", "minute", "second", "microsecond"}

\* the values a field of the clock takes
ClockRange(unit) ==
    CASE unit = "hour" -> 0..23
      [] unit \in {"minute", "second"} -> 0..59
      [] unit = "microsecond" -> 0..999999

\* what year=N, month=N, day=N do: N = 0 is the error "Can't set '<field>' to '0'", and
\* an accepted N > 0 is the value of that field
SetsDateUnit(cs, i) ==
    SetsUnit(cs, i, DateUnits) =>
        /\ SetTo(cs, i) = 0 =>
              /\ IsError(ret)
              /\ ErrorText(ret) = "Can't set '" \o FieldWord(cs, i) \o "' to '0'"
        /\ (SetTo(cs, i) > 0 /\ IsValue(UpTo(cs, i))) =>
              DateTimeOf(UpTo(cs, i))[UnitOf(cs, i)] = SetTo(cs, i)

IsRelativeForm(clause) ==
    \E k \in 3..(Len(clause) - 2) :
       /\ \A j \in 1..k : clause[j] \in WordChars
       /\ clause[k + 1] \in {"+", "-", "="}
       /\ \A j \in (k + 2)..Len(clause) : clause[j] \in Digits

\* C16: when the clauses before it evaluated without error, a clause that is not a reset,
\* matches neither ISO pattern, is not parseable as an absolute date and is not of the
\* form <word of 3 or more word characters><+|-|=><digits> makes the parse return
\* (None, "Unrecognized clause '<clause in lower case>'"), whatever clauses follow it
C16_UnrecognizedClause ==
    Returned("parse") =>
        \A i \in 1..Len(call.clauses) :
           (/\ ReachesDateParse(call.clauses, i)
            /\ ~AllParse(Interpretations(call.clauses[i], DateTimeOf(Before(call.clauses, i))))
            /\ ~IsRelativeForm(Lower(call.clauses[i])))
           => /\ IsError(ret)
              /\ ret.val.value = PyNone
              /\ ErrorText(ret)
                   = "Unrecognized clause '" \o Text(Lower(call.clauses[i])) \o "'"

\* "Ab+1 day+1": the word of the first clause has two characters, and the parse returned
\* the error of that clause, in lower case, though a clause follows it
C16_Witness ==
    /\ Returned("parse")
    /\ call.clauses = <<<<"A", "b", "+", "1">>, <<"d", "a", "y", "+", "1">>>>
    /\ ReachesDateParse(call.clauses, 1)
    /\ ~IsRelativeForm(Lower(call.clauses[1]))
    /\ IsError(ret)
    /\ ErrorText(ret) = "Unrecognized clause 'ab+1'"

\* the i-th clause is <word><op>N with the word resolving to a day of the week
OnWeekday(cs, i) ==
    /\ ReachesRelative(cs, i)
    /\ Resolved(ClauseMatch(Lower(cs[i]))[1]).t = "weekday"

OpOf(cs, i) == ClauseMatch(Lower(cs[i]))[2]

\* C17: for a relative clause whose word resolves to a weekday, `=` yields the error
\* "'=' not supported for '<field>'" for every N, and `+` / `-` with N = 0 yield
\* "Can't add '0' '<field>'s" / "Can't subtract '0' '<field>'s"; the parse returns the
\* error and no value
C17_WeekdayErrors ==
    Returned("parse") =>
        \A i \in 1..Len(call.clauses) :
           OnWeekday(call.clauses, i) =>
              /\ OpOf(call.clauses, i) = "=" =>
                    /\ IsError(ret)
                    /\ ErrorText(ret)
                         = "'=' not supported for '" \o FieldWord(call.clauses, i) \o "'"
              /\ (OpOf(call.clauses, i) = "+" /\ SetTo(call.clauses, i) = 0) =>
                    /\ IsError(ret)
                    /\ ErrorText(ret)
                         = "Can't add '0' '" \o FieldWord(call.clauses, i) \o "'s"
              /\ (OpOf(call.clauses, i) = "-" /\ SetTo(call.clauses, i) = 0) =>
                    /\ IsError(ret)
                    /\ ErrorText(ret)
                         = "Can't subtract '0' '" \o FieldWord(call.clauses, i) \o "'s"

\* "day+1 monday-0": the second clause subtracts no Mondays, and the parse returned its
\* error
C17_Witness ==
    /\ Returned("parse")
    /\ call.clauses = <<<<"d", "a", "y", "+", "1">>, <<"m", "o", "n", "d", "a", "y", "-", "0">>>>
    /\ OnWeekday(call.clauses, 2)
    /\ IsError(ret)
    /\ ErrorText(ret) = "Can't subtract '0' 'monday's"

\* the table keys that are a prefix of the word
KeysOf(word) == {k \in 1..Len(_clause_types) : StartsWith(word, _clause_types[k][1])}

\* C18: no key of the prefix table is a prefix of a different key; so at most one key is
\* a prefix of the word of a relative clause, the entry it resolves to is that key's
\* whatever the order of the table, and a word no key is a prefix of yields the error
\* "Unrecognized field '<field>'"
C18_PrefixFree ==
    Returned("parse") =>
        /\ \A j, k \in 1..Len(_clause_types) :
              j # k => ~StartsWith(_clause_types[j][1], _clause_types[k][1])
        /\ \A i \in 1..Len(call.clauses) :
              ReachesRelative(call.clauses, i) =>
                 LET word == ClauseMatch(Lower(call.clauses[i]))[1]
                 IN /\ Cardinality(KeysOf(word)) <= 1
                    /\ \A k \in KeysOf(word) : Resolved(word) = _clause_types[k][2]
                    /\ KeysOf(word) = {} =>
                          /\ IsError(ret)
                          /\ ErrorText(ret)
                               = "Unrecognized field '" \o FieldWord(call.clauses, i) \o "'"

\* "monday+1 Foo+1": the key "mond" alone is a prefix of the first word, no key is a
\* prefix of the second, and the parse returned the error of the second
C18_Witness ==
    /\ Returned("parse")
    /\ call.clauses = <<<<"m", "o", "n", "d", "a", "y", "+", "1">>, <<"F", "o", "o", "+", "1">>>>
    /\ ReachesRelative(call.clauses, 1) /\ ReachesRelative(call.clauses, 2)
    /\ Cardinality(KeysOf(<<"m", "o", "n", "d", "a", "y">>)) = 1
    /\ KeysOf(<<"f", "o", "o">>) = {}
    /\ IsError(ret)
    /\ ErrorText(ret) = "Unrecognized field 'foo'"

\* C19: every registered type with both a raw type and an element type has
\* raw_type.element_type = element_type.raw_type (the string-choice array's raw type is
\* the string array, whose element type is the string type, the raw type of the
\* string choice), and a class statement that violates it fails with AssertionError
C19_RawElementConsistent ==
    /\ \A T \in TYPES :
          (raw_type(T) # "" /\ element_type(T) # "") =>
             element_type(raw_type(T)) = raw_type(element_type(T))
    /\ raw_type("stringchoicearray") = "stringarray"
    /\ element_type("stringarray") = "string"
    /\ raw_type(element_type("stringchoicearray")) = "string"
    /\ (/\ Returned("define")
        /\ call.raw_type # "" /\ call.element_type # ""
        /\ element_type(call.raw_type) # raw_type(call.element_type)) =>
          Raised(ret) /\ ret.cls = "AssertionError"

\* a class with raw_type = StringArrayType and element_type = NumberChoiceType: the
\* element type of the one is the string type, the raw type of the other the number
\* type, and the class statement failed
C19_Witness ==
    /\ Returned("define")
    /\ call.raw_type = "stringarray" /\ call.element_type = "numberchoice"
    /\ element_type(call.raw_type) = "string" /\ raw_type(call.element_type) = "number"
    /\ Raised(ret)

\* C20: the cache of regex parses is bounded: however many pairwise distinct valid
\* patterns have been parsed, the cache holds fewer entries than there are patterns to
\* parse, older entries having been evicted or the cache cleared
C20_CacheBounded == Cardinality(cache) < MaxPatterns

\* C21, as stated: the JSON type, registry name "json", has default value "|"
C21_JsonDefaultBar ==
    (Returned("config") /\ call.type = "json") => ret.val.defaultValue = PyStr(<<"|">>)

\* C21: the default value "|" is that of the JSON-field type, registry name "jsonfield",
\* the type of the JSON type's field_equals lookups; the JSON type itself sets none and
\* has the default value None of the base type
C21_JsonFieldDefaultBar ==
    Returned("config") =>
        /\ call.type = "json" =>
              /\ ret.val.defaultValue = PyNone
              /\ \E i \in 1..Len(ret.val.lookups) :
                    /\ ret.val.lookups[i].name = "field_equals"
                    /\ ret.val.lookups[i].type = "jsonfield"
        /\ call.type = "jsonfield" => ret.val.defaultValue = PyStr(<<"|">>)

\* the entry of the JSON type was built, with the default value None
C21_Witness ==
    /\ Returned("config")
    /\ call.type = "json"
    /\ ret.val.defaultValue = PyNone

\* C22: the registry is closed under its lookup tables: the target type name of every
\* lookup of every registered type is a key of the registry, which holds one entry per
\* name though the loop builds the boolean array type twice; so parse_lookup and
\* format_lookup with a lookup the type's table holds never fail with KeyError, and the
\* types the config entry of each registered type names are registered
C22_RegistryClosed ==
    /\ ArrayLoopElements[1] = ArrayLoopElements[3]
    /\ Cardinality(LoopArrayTypes) = Len(ArrayLoopElements) - 1
    /\ Cardinality({T \in TYPES : T = "booleanarray"}) = 1
    /\ ((Returned("parse_lookup") \/ Returned("format_lookup"))
          /\ HasLookup(call.type, call.lookup)) =>
             ~(Raised(ret) /\ ret.cls = "KeyError")
    /\ Returned("config") =>
          \A i \in 1..Len(ret.val.lookups) : ret.val.lookups[i].type \in TYPES

\* parse_lookup of the string type with the lookup "regex" resolved the regex type in
\* the registry and returned the pattern
C22_Witness ==
    /\ Returned("parse_lookup")
    /\ call.type = "string" /\ call.lookup = "regex"
    /\ lookups(call.type, call.lookup).type_name = "regex"
    /\ calls = <<[type |-> "regex", value |-> call.value, choices |-> <<>>]>>
    /\ IsValue(ret)
    /\ ret.val.value = call.value

\* a text with no clause: empty, or of blanks alone
IsBlank(value) == \A i \in 1..Len(value.v) : value.v[i] = " "

\* the date part of the value of a date-time parse
DatePart(r) == PyDate(DateTimeOf(r).year, DateTimeOf(r).month, DateTimeOf(r).day)

\* what the date-time type returns for the text and the instant of the call
AsDateTime == parse("datetime", call.value, <<>>, call.env)

\* C23: an empty or blank expression evaluates no clause and succeeds, with the current
\* instant for the date-time type and with the current date for the date type; and for
\* every expression the date type returns the date part of what the date-time type
\* returns for the same expression and instant, and the same error when that fails
C23_EmptyExpression ==
    (Returned("parse") /\ call.type \in DateTypes /\ call.choices = <<>>) =>
        /\ IsBlank(call.value) =>
              /\ IsValue(ret)
              /\ call.type = "datetime" => ret.val.value = [t |-> "datetime", v |-> call.env.now]
              /\ call.type = "date" =>
                    ret.val.value
                      = PyDate(call.env.now.year, call.env.now.month, call.env.now.day)
        /\ call.type = "date" =>
              IF IsValue(AsDateTime)
              THEN IsValue(ret) /\ ret.val.value = DatePart(AsDateTime)
              ELSE ret = AsDateTime

\* the date type parsed a text of two blanks at 2024-01-15T10:00:00 and returned the
\* date 2024-01-15
C23_Witness ==
    /\ Returned("parse")
    /\ call.type = "date" /\ call.value = PyStr(<<" ", " ">>)
    /\ call.env.now = Now0
    /\ IsValue(ret)
    /\ ret.val.value = PyDate(2024, 1, 15)

\* the positions of the pairs of a choices list that carry the label
Labelled(choices, label) == {i \in 1..Len(choices) : choices[i][2] = label}

\* the last of a non-empty set of positions
LastOf(at) == CHOOSE i \in at : \A j \in at : j <= i

\* C24: a choice parse resolves a label carried by several pairs to the raw value of the
\* last such pair; so the IsNull type parses "IsNull" to True and "NotNull" to False and
\* never returns None, the text None is formatted to, "IsNull", parses back to True, and
\* every other text is the error "Unknown choice '<text>'"
C24_LastLabelWins ==
    Returned("parse") =>
        /\ (call.type \in ChoiceTypes /\ Labelled(call.choices, call.value) # {}) =>
              /\ IsValue(ret)
              /\ ret.val.value = call.choices[LastOf(Labelled(call.choices, call.value))][1]
        /\ (call.type = "isnull" /\ call.choices = <<>>) =>
              /\ IsValue(ret) => ret.val.value # PyNone
              /\ call.value = PyStr(<<"I", "s", "N", "u", "l", "l">>) =>
                    /\ _get_formatter("isnull", <<>>, PyNone) = Ret(call.value)
                    /\ IsValue(ret)
                    /\ ret.val.value = PyBool(TRUE)
              /\ call.value = PyStr(<<"N", "o", "t", "N", "u", "l", "l">>) =>
                    IsValue(ret) /\ ret.val.value = PyBool(FALSE)
              /\ call.value \notin {PyStr(<<"I", "s", "N", "u", "l", "l">>),
                                    PyStr(<<"N", "o", "t", "N", "u", "l", "l">>)} =>
                    /\ IsError(ret)
                    /\ ErrorText(ret) = "Unknown choice '" \o Text(call.value.v) \o "'"

\* the IsNull type parsed "IsNull", the text None is formatted to, and returned True
C24_Witness ==
    /\ Returned("parse")
    /\ call.type = "isnull" /\ call.choices = <<>>
    /\ call.value = PyStr(<<"I", "s", "N", "u", "l", "l">>)
    /\ _get_formatter("isnull", <<>>, PyNone) = Ret(call.value)
    /\ IsValue(ret)
    /\ ret.val.value = PyBool(TRUE)

\* a text in which the sharing pattern matches somewhere
HasSharingLink(text) ==
    \E i \in 1..Len(text) :
        /\ StartsWith(SubSeq(text, i, Len(text)), DrivePrefix)
        /\ IndexFrom(SubSeq(text, i, Len(text)), DriveSuffix, Len(DrivePrefix) + 2) # 0

\* what stands between the two ends of a text that is one sharing link
FileId(text) == SubSeq(text, Len(DrivePrefix) + 1, Len(text) - Len(DriveSuffix))

\* a text that is one sharing link and nothing else
IsSharingLink(text) ==
    /\ Len(text) > Len(DrivePrefix) + Len(DriveSuffix)
    /\ text = DrivePrefix \o FileId(text) \o DriveSuffix
    /\ ~Contains(FileId(text), "/")

\* C25: qr_code_request puts qr_code_data in the context it renders only for a POST whose
\* form is valid; a request that is no POST, and a POST whose form is invalid, render the
\* form alone and draw nothing. A valid POST encodes the form's data, rewritten by
\* modify_google_drive_url if and only if is_google_drive_link is set: a text without
\* the sharing pattern stays as it is, a sharing link becomes the download link of its
\* file id. The back_color handed to make_image is None exactly when
\* transparent_background is set, and the form's back_color otherwise.
C25_QrRequest ==
    Returned("qr_code_request") =>
        LET form == QRCodeForm(call.post)
            valid == call.method = "POST" /\ is_valid(form)
            text == form.data[1].v
            linked == Truthy(form.is_google_drive_link)
            clear == Truthy(form.transparent_background)
        IN /\ ~Raised(ret) => /\ ret.val.template = "qrapp/qr_form.html"
                              /\ "form" \in ret.val.keys
                              /\ "qr_code_data" \in ret.val.keys <=> valid
           /\ ~valid => /\ ~Raised(ret)
                        /\ ret.val.keys = {"form"}
                        /\ calls = <<>>
           /\ Raised(ret) => valid /\ ~call.drawn
           /\ valid =>
                /\ Len(calls) = 3
                /\ calls[1].box_size = form.size[1] /\ calls[1].border = form.border[1]
                /\ calls[2].data.t = "str"
                /\ ~linked => calls[2].data.v = text
                /\ linked => calls[2].data.v = modify_google_drive_url(text)
                /\ (linked /\ ~HasSharingLink(text)) => calls[2].data.v = text
                /\ (linked /\ IsSharingLink(text)) =>
                      calls[2].data.v = DriveReplacement \o FileId(text)
                /\ calls[3].fill_color = form.fill_color[1]
                /\ clear <=> calls[3].back_color = PyNone
                /\ ~clear => /\ calls[3].back_color = form.back_color[1]
                             /\ calls[3].back_color.v = Strip(call.post.back_color.v)
                /\ ~Raised(ret) => ret.val.qr_code_data = calls

\* a valid POST of a sharing link with both boxes ticked: the response carries
\* qr_code_data, the code encodes the download link and the image has no background
C25_Witness ==
    /\ Returned("qr_code_request")
    /\ call.method = "POST" /\ is_valid(QRCodeForm(call.post))
    /\ IsSharingLink(call.post.data.v)
    /\ call.post.is_google_drive_link.t = "str"
    /\ call.post.transparent_background = PyStr(<<"o", "n">>)
    /\ ~Raised(ret)
    /\ "qr_code_data" \in ret.val.keys
    /\ calls[2].data.v = DriveReplacement \o <<"a", "B", "1">>
    /\ calls[3].back_color = PyNone

=============================================================================
